---- MODULE Spec2Model ----
(***************************************************************************)
(* Ledger store of wago (package storage, src/unnamed/part_004): wallets,  *)
(* categories, contacts, transactions and prices held in one JSON          *)
(* document, with the balance-mutation protocol of AddTransaction and      *)
(* DeleteTransaction.                                                      *)
(*                                                                         *)
(* Amounts are float64 in the source.  The model uses integers, i.e. it    *)
(* covers the amounts for which float64 addition is exact (integers of     *)
(* magnitude below 2^53); rounding is outside the model.                   *)
(***************************************************************************)
EXTENDS Integers, Sequences, FiniteSets, TLC

VARIABLES s, dataFile, last, calls, cp, dash, other

vars == <<s, dataFile, last, calls, cp, dash, other>>

\* ------------------------------------------------------------------ bounds
\* Number of store calls a behaviour of the model makes.
MaxCalls == 3

\* ------------------------------------------------------------ input sets
WalletNames == {"w1", "w2"}
\* A transaction may name a wallet, a name that is no wallet, or nothing.
NameArgs == WalletNames \cup {""}
Coins == {"A", "B"}
Amounts == {1, 2}
TxIDs == {"", "t1"}

\* model.TxType constants
TxTypeDeposit == "deposit"
TxTypeWithdraw == "withdraw"
TxTypeTransfer == "transfer"
TxTypeSwap == "swap"

\* Error kinds returned by the store (fmt.Errorf texts in the source).
ErrNone == "ok"
ErrDuplicate == "already exists"
ErrNotFound == "not found"
ErrInvalid == "both source and destination wallets are invalid"

\* model.Tx with the fields the store reads; unused fields hold Go's zero
\* values ("" and 0).
Tx(id, typ, from, to, coin, amount, sw, sc, sa, bc, ba) ==
    [ID |-> id, Type |-> typ, FromWallet |-> from, ToWallet |-> to,
     Coin |-> coin, Amount |-> amount, SwapWallet |-> sw,
     SellCoin |-> sc, SellAmount |-> sa, BuyCoin |-> bc, BuyAmount |-> ba]

DepositTxs ==
    {Tx(id, TxTypeDeposit, "", to, c, a, "", "", 0, "", 0) :
        id \in TxIDs, to \in NameArgs, c \in Coins, a \in Amounts}
WithdrawTxs ==
    {Tx(id, TxTypeWithdraw, from, "", c, a, "", "", 0, "", 0) :
        id \in TxIDs, from \in NameArgs, c \in Coins, a \in Amounts}
TransferTxs ==
    {Tx(id, TxTypeTransfer, from, to, c, a, "", "", 0, "", 0) :
        id \in TxIDs, from \in NameArgs, to \in NameArgs, c \in Coins,
        a \in Amounts}
SwapTxs ==
    {Tx(id, TxTypeSwap, "", "", "", 0, w, sc, sa, bc, ba) :
        id \in TxIDs, w \in NameArgs, sc \in Coins, sa \in Amounts,
        bc \in Coins, ba \in Amounts}
TxInputs == DepositTxs \cup WithdrawTxs \cup TransferTxs \cup SwapTxs

\* The transactions the AddTransaction action draws: every combination of
\* wallet names under a generated id, deposits also without an id; coin A
\* for deposit, withdraw and transfer, every coin pair for a swap; one
\* amount per field.
CallTxs ==
    {tx \in TxInputs :
        /\ tx.ID # "" \/ tx.Type = TxTypeDeposit
        /\ tx.Coin \in {"", "A"}
        /\ tx.Amount \in {0, 1}
        /\ tx.SellAmount \in {0, 1}
        /\ tx.BuyAmount \in {0, 2}}

\* No transaction (the zero value of the last-call record's tx field).
NoTx == Tx("", "", "", "", "", 0, "", "", 0, "", 0)

\* ---------------------------------------------------------------- helpers
\* model.Wallet as built by the callers of AddWallet: no balances yet.
Wallet(name, category) ==
    [Name |-> name, Category |-> category, Balances |-> <<>>]

\* map insert / delete on a TLA+ function
MapPut(m, k, v) == [x \in (DOMAIN m) \cup {k} |-> IF x = k THEN v ELSE m[x]]
MapDel(m, k) == [x \in (DOMAIN m) \ {k} |-> m[x]]

\* Index of the first balance entry of the coin, 0 when there is none.
FirstIdx(balances, coin) ==
    IF \E i \in 1..Len(balances) : balances[i].Coin = coin
    THEN CHOOSE i \in 1..Len(balances) :
            /\ balances[i].Coin = coin
            /\ \A j \in 1..(i - 1) : balances[j].Coin # coin
    ELSE 0

\* updateBalance assigning the delta instead of adding it.
updateBalance_Overwrite(balances, coin, amount) ==
    LET i == FirstIdx(balances, coin)
    IN IF i # 0
       THEN [balances EXCEPT ![i].Amount = amount]
       ELSE Append(balances, [Coin |-> coin, Amount |-> amount])

\* Storage.updateBalance on the wallet's balance list.
updateBalance(balances, coin, amount) ==
    LET i == FirstIdx(balances, coin)
    IN IF i # 0
       THEN [balances EXCEPT ![i].Amount = @ + amount]
       ELSE Append(balances, [Coin |-> coin, Amount |-> amount])

\* Storage.GetWallet: err == nil
HasWallet(st, name) == name \in DOMAIN st.data.Wallets

\* Credit dropping the entries that are not positive afterwards.
Credit_Prunes(st, name, coin, amount) ==
    [st EXCEPT !.data.Wallets[name].Balances =
        SelectSeq(updateBalance(@, coin, amount), LAMBDA b : b.Amount > 0)]

\* updateBalance applied to the wallet stored under name
Credit(st, name, coin, amount) ==
    [st EXCEPT !.data.Wallets[name].Balances = updateBalance(@, coin, amount)]

\* save leaving the price table out of the document.
save_WithoutPrices(st) == [st.data EXCEPT !.Prices = <<>>]

\* Storage.save: the whole aggregate is written to the data file.
save(st) == st.data

\* ------------------------------------------------------ store operations
\* Each operation returns the error and the store after the call.
Ret(err, st) == [err |-> err, st |-> st]

\* AddTransaction taking the fee of a deposit from the amount credited.
ApplyDeposit_ChargesFee(st, tx) ==
    Credit(st, tx.ToWallet, tx.Coin, tx.Amount - tx.Fee)

\* AddTransaction, case TxTypeDeposit (the wallet resolved)
ApplyDeposit(st, tx) == Credit(st, tx.ToWallet, tx.Coin, tx.Amount)

\* AddTransaction, case TxTypeWithdraw (the wallet resolved)
ApplyWithdraw(st, tx) == Credit(st, tx.FromWallet, tx.Coin, 0 - tx.Amount)

\* ApplyTransfer crediting the destination only when the source resolved.
ApplyTransfer_NeedsSource(st, tx) ==
    LET fromOK == tx.FromWallet # "" /\ HasWallet(st, tx.FromWallet)
        toOK == tx.ToWallet # "" /\ HasWallet(st, tx.ToWallet)
        s1 == IF fromOK
              THEN Credit(st, tx.FromWallet, tx.Coin, 0 - tx.Amount)
              ELSE st
    IN IF fromOK /\ toOK THEN Credit(s1, tx.ToWallet, tx.Coin, tx.Amount)
       ELSE s1

\* AddTransaction, case TxTypeTransfer (at least one side did not fail)
ApplyTransfer(st, tx) ==
    LET fromOK == tx.FromWallet # "" /\ HasWallet(st, tx.FromWallet)
        toOK == tx.ToWallet # "" /\ HasWallet(st, tx.ToWallet)
        s1 == IF fromOK
              THEN Credit(st, tx.FromWallet, tx.Coin, 0 - tx.Amount)
              ELSE st
    IN IF toOK THEN Credit(s1, tx.ToWallet, tx.Coin, tx.Amount)
       ELSE s1

\* ApplySwap with the two amounts exchanged.
ApplySwap_AmountsCrossed(st, tx) ==
    Credit(Credit(st, tx.SwapWallet, tx.SellCoin, 0 - tx.BuyAmount),
           tx.SwapWallet, tx.BuyCoin, tx.SellAmount)

\* AddTransaction, case TxTypeSwap (the wallet resolved)
ApplySwap(st, tx) ==
    Credit(Credit(st, tx.SwapWallet, tx.SellCoin, 0 - tx.SellAmount),
           tx.SwapWallet, tx.BuyCoin, tx.BuyAmount)

\* The balance updates of AddTransaction's switch.
ApplyTx(st, tx) ==
    CASE tx.Type = TxTypeDeposit -> ApplyDeposit(st, tx)
      [] tx.Type = TxTypeWithdraw -> ApplyWithdraw(st, tx)
      [] tx.Type = TxTypeTransfer -> ApplyTransfer(st, tx)
      [] tx.Type = TxTypeSwap -> ApplySwap(st, tx)
      [] OTHER -> st

\* The error the switch of AddTransaction returns before any update.
ResolveErr(st, tx) ==
    CASE tx.Type = TxTypeDeposit ->
            IF HasWallet(st, tx.ToWallet) THEN ErrNone ELSE ErrNotFound
      [] tx.Type = TxTypeWithdraw ->
            IF HasWallet(st, tx.FromWallet) THEN ErrNone ELSE ErrNotFound
      [] tx.Type = TxTypeTransfer ->
            LET fromErr == tx.FromWallet # "" /\ ~HasWallet(st, tx.FromWallet)
                toErr == tx.ToWallet # "" /\ ~HasWallet(st, tx.ToWallet)
            IN IF fromErr /\ toErr THEN ErrInvalid ELSE ErrNone
      [] tx.Type = TxTypeSwap ->
            IF HasWallet(st, tx.SwapWallet) THEN ErrNone ELSE ErrNotFound
      [] OTHER -> ErrNone

\* AddTransaction marking the id as used before the wallets are resolved.
AddTransactionOp_IndexFirst(st, tx) ==
    IF tx.ID # "" /\ tx.ID \in st.txIndex
    THEN Ret(ErrDuplicate, st)
    ELSE IF ResolveErr(st, tx) # ErrNone
    THEN Ret(ResolveErr(st, tx), [st EXCEPT !.txIndex = @ \cup {tx.ID}])
    ELSE LET s1 == ApplyTx(st, tx)
         IN Ret(ErrNone,
                [s1 EXCEPT !.data.Transactions = MapPut(@, tx.ID, tx),
                           !.txIndex = @ \cup {tx.ID}])

\* Storage.AddTransaction
AddTransactionOp(st, tx) ==
    IF tx.ID # "" /\ tx.ID \in st.txIndex
    THEN Ret(ErrDuplicate, st)
    ELSE IF ResolveErr(st, tx) # ErrNone
    THEN Ret(ResolveErr(st, tx), st)
    ELSE LET s1 == ApplyTx(st, tx)
         IN Ret(ErrNone,
                [s1 EXCEPT !.data.Transactions = MapPut(@, tx.ID, tx),
                           !.txIndex = @ \cup {tx.ID}])

\* DeleteTransaction leaving the balance of a deleted deposit in place.
ReverseDeposit_KeepsBalance(st, tx) == st

\* DeleteTransaction, case TxTypeDeposit
ReverseDeposit(st, tx) ==
    IF HasWallet(st, tx.ToWallet)
    THEN Credit(st, tx.ToWallet, tx.Coin, 0 - tx.Amount)
    ELSE st

\* DeleteTransaction, case TxTypeWithdraw
ReverseWithdraw(st, tx) ==
    IF HasWallet(st, tx.FromWallet)
    THEN Credit(st, tx.FromWallet, tx.Coin, tx.Amount)
    ELSE st

\* ReverseTransfer giving up when the source wallet is gone.
ReverseTransfer_StopsAtMissing(st, tx) ==
    IF ~HasWallet(st, tx.FromWallet) THEN st
    ELSE LET s1 == Credit(st, tx.FromWallet, tx.Coin, tx.Amount)
         IN IF HasWallet(s1, tx.ToWallet)
            THEN Credit(s1, tx.ToWallet, tx.Coin, 0 - tx.Amount)
            ELSE s1

\* DeleteTransaction, case TxTypeTransfer
ReverseTransfer(st, tx) ==
    LET s1 == IF HasWallet(st, tx.FromWallet)
              THEN Credit(st, tx.FromWallet, tx.Coin, tx.Amount)
              ELSE st
    IN IF HasWallet(s1, tx.ToWallet)
       THEN Credit(s1, tx.ToWallet, tx.Coin, 0 - tx.Amount)
       ELSE s1

\* ReverseSwap giving back the sold coin only.
ReverseSwap_SellOnly(st, tx) ==
    IF HasWallet(st, tx.SwapWallet)
    THEN Credit(st, tx.SwapWallet, tx.SellCoin, tx.SellAmount)
    ELSE st

\* DeleteTransaction, case TxTypeSwap
ReverseSwap(st, tx) ==
    IF HasWallet(st, tx.SwapWallet)
    THEN Credit(Credit(st, tx.SwapWallet, tx.SellCoin, tx.SellAmount),
                tx.SwapWallet, tx.BuyCoin, 0 - tx.BuyAmount)
    ELSE st

\* Reversal switch of Storage.DeleteTransaction.
ReverseTx(st, tx) ==
    CASE tx.Type = TxTypeDeposit -> ReverseDeposit(st, tx)
      [] tx.Type = TxTypeWithdraw -> ReverseWithdraw(st, tx)
      [] tx.Type = TxTypeTransfer -> ReverseTransfer(st, tx)
      [] tx.Type = TxTypeSwap -> ReverseSwap(st, tx)
      [] OTHER -> st

\* DeleteTransaction that leaves the record in the transaction map.
DeleteTransactionOp_KeepsRecord(st, txID) ==
    IF txID \notin DOMAIN st.data.Transactions
    THEN Ret(ErrNotFound, st)
    ELSE LET s1 == ReverseTx(st, st.data.Transactions[txID])
         IN Ret(ErrNone, [s1 EXCEPT !.txIndex = @ \ {txID}])

\* Storage.DeleteTransaction
DeleteTransactionOp(st, txID) ==
    IF txID \notin DOMAIN st.data.Transactions
    THEN Ret(ErrNotFound, st)
    ELSE LET s1 == ReverseTx(st, st.data.Transactions[txID])
         IN Ret(ErrNone,
                [s1 EXCEPT !.data.Transactions = MapDel(@, txID),
                           !.txIndex = @ \ {txID}])

\* AddWallet reporting the duplicate after having replaced the entry.
AddWalletOp_Overwrites(st, wallet) ==
    Ret(IF HasWallet(st, wallet.Name) THEN ErrDuplicate ELSE ErrNone,
        [st EXCEPT !.data.Wallets = MapPut(@, wallet.Name, wallet)])

\* Storage.AddWallet
AddWalletOp(st, wallet) ==
    IF HasWallet(st, wallet.Name)
    THEN Ret(ErrDuplicate, st)
    ELSE Ret(ErrNone, [st EXCEPT !.data.Wallets = MapPut(@, wallet.Name, wallet)])

\* DeleteWallet removing the transactions that name the wallet as well.
DeleteWalletOp_Cascades(st, name) ==
    IF ~HasWallet(st, name)
    THEN Ret(ErrNotFound, st)
    ELSE Ret(ErrNone,
             [st EXCEPT !.data.Wallets = MapDel(@, name),
                        !.data.Transactions =
                            [id \in {i \in DOMAIN @ :
                                        name \notin {@[i].FromWallet,
                                                     @[i].ToWallet,
                                                     @[i].SwapWallet}}
                                |-> @[id]]])

\* Storage.DeleteWallet
DeleteWalletOp(st, name) ==
    IF ~HasWallet(st, name)
    THEN Ret(ErrNotFound, st)
    ELSE Ret(ErrNone, [st EXCEPT !.data.Wallets = MapDel(@, name)])

\* ------------------------------------------------------------------ state
\* Storage.load on a fresh data directory: empty maps, default prices.
EmptyData ==
    [Wallets |-> <<>>, Categories |-> <<>>, Contacts |-> <<>>,
     Transactions |-> <<>>,
     Prices |-> [c \in {"usdc", "usdt"} |-> 1]]

\* A document an earlier process saved: a category, a contact, a price set
\* by hand and the wallets ns, which have no balances yet.
SavedData(ns) ==
    [Wallets |-> [n \in ns |-> Wallet(n, "")],
     Categories |-> [n \in {"c1"} |-> [Name |-> n, Color |-> "red"]],
     Contacts |-> [n \in {"k1"} |-> [Name |-> n, Address |-> "addr1"]],
     Transactions |-> <<>>,
     Prices |-> [c \in {"usdc", "usdt", "a"} |-> IF c = "a" THEN 2 ELSE 1]]

\* The documents Storage.load may find: no file yet, or a saved document
\* with at least one wallet.
LoadedData ==
    {EmptyData} \cup {SavedData(ns) : ns \in (SUBSET WalletNames) \ {{}}}

\* The data file before the first save: there is none.
NoFile == [absent |-> TRUE]

\* NewCommandPalette: no history, the cursor before the first entry.
NewCommandPalette == [history |-> <<>>, histIdx |-> 0 - 1]

\* No second process has opened the data file.
NoInstance == [data |-> NoFile, txIndex |-> {}]

\* The dashboard before it has drawn anything.
NoDashboard == [txs |-> <<>>]

\* Storage.buildTxIndex
buildTxIndex(data) == DOMAIN data.Transactions

Init ==
    /\ \E d \in LoadedData :
          /\ s = [data |-> d, txIndex |-> buildTxIndex(d)]
          /\ dataFile = IF d = EmptyData THEN NoFile ELSE d
    /\ last = [op |-> "New", err |-> ErrNone, tx |-> NoTx]
    /\ calls = 0
    /\ cp = NewCommandPalette
    /\ dash = NoDashboard
    /\ other = NoInstance

\* A call of a store method: on success the aggregate is saved.  The
\* last-call record keeps the method, the error it returned and, for
\* DeleteTransaction, the record it found under the id.
StoreCall(op, r, tx) ==
    /\ calls < MaxCalls
    /\ calls' = calls + 1
    /\ s' = r.st
    /\ dataFile' = IF r.err = ErrNone THEN save(r.st) ELSE dataFile
    /\ last' = [op |-> op, err |-> r.err, tx |-> tx]

\* A store call made by a caller other than the dashboard's palette.
Call(op, r, tx) == StoreCall(op, r, tx) /\ UNCHANGED <<cp, dash, other>>

AddWallet(name, category) ==
    Call("AddWallet", AddWalletOp(s, Wallet(name, category)), NoTx)

DeleteWallet(name) ==
    Call("DeleteWallet", DeleteWalletOp(s, name), NoTx)

AddTransaction(tx) ==
    Call("AddTransaction", AddTransactionOp(s, tx), NoTx)

DeleteTransaction(txID) ==
    Call("DeleteTransaction", DeleteTransactionOp(s, txID),
         IF txID \in DOMAIN s.data.Transactions
         THEN s.data.Transactions[txID] ELSE NoTx)

Next ==
    \/ \E n \in WalletNames : AddWallet(n, "")
    \/ \E n \in WalletNames : DeleteWallet(n)
    \/ \E tx \in CallTxs : AddTransaction(tx)
    \/ \E id \in TxIDs : DeleteTransaction(id)

Spec == Init /\ [][Next]_vars

\* ----------------------------------------------------------- observations
\* The balance of a coin in a balance list, an absent entry counting as 0.
Bal(balances, coin) ==
    IF FirstIdx(balances, coin) = 0 THEN 0
    ELSE balances[FirstIdx(balances, coin)].Amount

\* The coins that have an entry in a balance list.
EntryCoins(balances) == {balances[i].Coin : i \in 1..Len(balances)}

\* The balance-by-coin mapping of a balance list: the coins that have an
\* entry and the amount of each.
BalanceMap(balances) == [c \in EntryCoins(balances) |-> Bal(balances, c)]

\* The balance-by-coin mapping of every wallet of a store.
AllBalanceMaps(st) ==
    [n \in DOMAIN st.data.Wallets |-> BalanceMap(st.data.Wallets[n].Balances)]

\* The balance lists of a store's wallet, <<>> for a name that is no wallet.
BalancesOf(st, name) ==
    IF HasWallet(st, name) THEN st.data.Wallets[name].Balances ELSE <<>>

\* The store after DeleteTransaction(tx.ID) follows an AddTransaction(tx)
\* that returned r.
ThenDelete(r, tx) == DeleteTransactionOp(r.st, tx.ID).st

\* ------------------------------------------------------------------ claims
\* C1 as stated: for every reachable ledger and every transaction that
\* AddTransaction accepts, AddTransaction(tx) followed by
\* DeleteTransaction(tx.ID) leaves every wallet's balance-by-coin mapping
\* (coins with an entry, and their amounts) identical.
C1_Original ==
    \A tx \in TxInputs :
        LET r == AddTransactionOp(s, tx)
        IN r.err = ErrNone
            => AllBalanceMaps(ThenDelete(r, tx)) = AllBalanceMaps(s)

\* C1 amended: after the pair every wallet still exists, every coin's
\* balance (absent entry = 0) is what it was, no entry is lost, and the
\* only entries gained are entries of amount 0.
C1_ReversalRestoresAmounts ==
    \A tx \in TxInputs :
        LET r == AddTransactionOp(s, tx)
        IN r.err = ErrNone
            => LET after == ThenDelete(r, tx)
               IN /\ DOMAIN after.data.Wallets = DOMAIN s.data.Wallets
                  /\ \A n \in DOMAIN s.data.Wallets :
                        LET b0 == s.data.Wallets[n].Balances
                            b1 == after.data.Wallets[n].Balances
                        IN /\ \A c \in Coins : Bal(b1, c) = Bal(b0, c)
                           /\ EntryCoins(b0) \subseteq EntryCoins(b1)
                           /\ \A c \in EntryCoins(b1) \ EntryCoins(b0) :
                                Bal(b1, c) = 0

\* C1 witness: the second call of the process was a successful
\* DeleteTransaction, so it undid the AddTransaction made by the first call
\* (no transaction is loaded), and a wallet is left with a zero entry.
C1_Witness ==
    /\ last.op = "DeleteTransaction" /\ last.err = ErrNone /\ calls = 2
    /\ \E n \in DOMAIN s.data.Wallets :
          \E i \in 1..Len(s.data.Wallets[n].Balances) :
              s.data.Wallets[n].Balances[i].Amount = 0

\* The wallet record stored under a name of the store.
W(st, name) == st.data.Wallets[name]

\* The result of AddTransaction(tx) in the current state.
Added(tx) == AddTransactionOp(s, tx)

\* The id is refused by the duplicate check of AddTransaction.
IsDuplicate(st, tx) == tx.ID # "" /\ tx.ID \in st.txIndex

\* C2: if a transaction is stored under an id, AddTransaction of a
\* transaction with the same id fails with the duplicate error and leaves
\* the number of stored transactions and every wallet as they were.
C2_Uniqueness ==
    \A tx \in TxInputs :
        tx.ID \in DOMAIN s.data.Transactions
            => /\ Added(tx).err = ErrDuplicate
               /\ Cardinality(DOMAIN Added(tx).st.data.Transactions)
                    = Cardinality(DOMAIN s.data.Transactions)
               /\ Added(tx).st.data.Wallets = s.data.Wallets

\* C3 as stated: an accepted swap lowers the wallet's balance of sellCoin
\* by exactly sellAmount and raises its balance of buyCoin by exactly
\* buyAmount, whatever the two coins are, and changes no other wallet.
C3_Original ==
    \A tx \in SwapTxs :
        Added(tx).err = ErrNone
            => LET b0 == W(s, tx.SwapWallet).Balances
                   b1 == W(Added(tx).st, tx.SwapWallet).Balances
               IN /\ Bal(b1, tx.SellCoin) = Bal(b0, tx.SellCoin) - tx.SellAmount
                  /\ Bal(b1, tx.BuyCoin) = Bal(b0, tx.BuyCoin) + tx.BuyAmount
                  /\ \A n \in DOMAIN s.data.Wallets \ {tx.SwapWallet} :
                        W(Added(tx).st, n) = W(s, n)

\* C3 amended: an accepted swap changes the wallet's balance of every coin
\* by (-sellAmount if the coin is sellCoin) + (buyAmount if the coin is
\* buyCoin), which is the stated effect when the two coins differ and the
\* net buyAmount - sellAmount when they are the same coin; no wallet is
\* added or removed and every other wallet is unchanged.
C3_SwapNetEffect ==
    \A tx \in SwapTxs :
        Added(tx).err = ErrNone
            => LET b0 == W(s, tx.SwapWallet).Balances
                   b1 == W(Added(tx).st, tx.SwapWallet).Balances
               IN /\ DOMAIN Added(tx).st.data.Wallets = DOMAIN s.data.Wallets
                  /\ \A c \in Coins :
                        Bal(b1, c) = Bal(b0, c)
                            - (IF c = tx.SellCoin THEN tx.SellAmount ELSE 0)
                            + (IF c = tx.BuyCoin THEN tx.BuyAmount ELSE 0)
                  /\ tx.SellCoin # tx.BuyCoin
                        => /\ Bal(b1, tx.SellCoin)
                                = Bal(b0, tx.SellCoin) - tx.SellAmount
                           /\ Bal(b1, tx.BuyCoin)
                                = Bal(b0, tx.BuyCoin) + tx.BuyAmount
                  /\ \A n \in DOMAIN s.data.Wallets \ {tx.SwapWallet} :
                        W(Added(tx).st, n) = W(s, n)

\* C3 witness: the first call stored a swap between two different coins in
\* a wallet that had no entry for either; the wallet now holds -sellAmount
\* of the one and +buyAmount of the other.
C3_Witness ==
    /\ last.op = "AddTransaction" /\ last.err = ErrNone /\ calls = 1
    /\ "t1" \in DOMAIN s.data.Transactions
    /\ LET tx == s.data.Transactions["t1"]
       IN /\ tx.Type = TxTypeSwap
          /\ tx.SellCoin # tx.BuyCoin
          /\ W(s, tx.SwapWallet).Balances
                = <<[Coin |-> tx.SellCoin, Amount |-> 0 - tx.SellAmount],
                    [Coin |-> tx.BuyCoin, Amount |-> tx.BuyAmount]>>

\* C4 as stated: an accepted transfer debits the source name's wallet by
\* amount iff the name is an existing wallet, credits the destination
\* name's wallet by amount iff the name is an existing wallet, and changes
\* no other wallet or coin.
C4_Original ==
    \A tx \in TransferTxs :
        Added(tx).err = ErrNone
            => /\ DOMAIN Added(tx).st.data.Wallets = DOMAIN s.data.Wallets
               /\ HasWallet(s, tx.FromWallet)
                    => Bal(W(Added(tx).st, tx.FromWallet).Balances, tx.Coin)
                        = Bal(W(s, tx.FromWallet).Balances, tx.Coin) - tx.Amount
               /\ HasWallet(s, tx.ToWallet)
                    => Bal(W(Added(tx).st, tx.ToWallet).Balances, tx.Coin)
                        = Bal(W(s, tx.ToWallet).Balances, tx.Coin) + tx.Amount
               /\ \A n \in DOMAIN s.data.Wallets \ {tx.FromWallet, tx.ToWallet} :
                    W(Added(tx).st, n) = W(s, n)

\* C4 amended: an accepted transfer changes the balance of coin in each
\* existing wallet by (-amount if the wallet is the source) + (amount if
\* it is the destination): a debit of the source and a credit of the
\* destination when the two names differ, no net change when source and
\* destination are the same wallet.  No wallet is created for a name that
\* is none, no other coin changes, and a wallet named by neither side is
\* unchanged.
C4_TransferNetEffect ==
    \A tx \in TransferTxs :
        Added(tx).err = ErrNone
            => /\ DOMAIN Added(tx).st.data.Wallets = DOMAIN s.data.Wallets
               /\ \A n \in DOMAIN s.data.Wallets :
                    \A c \in Coins :
                        Bal(W(Added(tx).st, n).Balances, c)
                            = Bal(W(s, n).Balances, c)
                              - (IF n = tx.FromWallet /\ c = tx.Coin
                                 THEN tx.Amount ELSE 0)
                              + (IF n = tx.ToWallet /\ c = tx.Coin
                                 THEN tx.Amount ELSE 0)
               /\ \A n \in DOMAIN s.data.Wallets \ {tx.FromWallet, tx.ToWallet} :
                    W(Added(tx).st, n) = W(s, n)

\* C4 witness: the first call stored a transfer whose source is no wallet
\* and whose destination is one; the destination holds +amount and every
\* other wallet has no balance entry.
C4_Witness ==
    /\ last.op = "AddTransaction" /\ last.err = ErrNone /\ calls = 1
    /\ "t1" \in DOMAIN s.data.Transactions
    /\ LET tx == s.data.Transactions["t1"]
       IN /\ tx.Type = TxTypeTransfer
          /\ tx.FromWallet # "" /\ ~HasWallet(s, tx.FromWallet)
          /\ HasWallet(s, tx.ToWallet)
          /\ W(s, tx.ToWallet).Balances
                = <<[Coin |-> tx.Coin, Amount |-> tx.Amount]>>
          /\ \A n \in DOMAIN s.data.Wallets \ {tx.ToWallet} :
                W(s, n).Balances = <<>>

\* C5: AddTransaction of a transfer of which neither the source name nor
\* the destination name is an existing wallet, an empty name included,
\* fails with the invalid-reference error and changes nothing.
C5_TransferNeedsWallet ==
    \A tx \in TransferTxs :
        (/\ ~IsDuplicate(s, tx)
         /\ ~HasWallet(s, tx.FromWallet)
         /\ ~HasWallet(s, tx.ToWallet))
            => Added(tx).err = ErrInvalid /\ Added(tx).st = s

\* The wallet a deposit, withdraw or swap names.
TargetWallet(tx) ==
    CASE tx.Type = TxTypeDeposit -> tx.ToWallet
      [] tx.Type = TxTypeWithdraw -> tx.FromWallet
      [] OTHER -> tx.SwapWallet

\* The result of DeleteTransaction(txID) in the current state.
Deleted(txID) == DeleteTransactionOp(s, txID)

\* C6: an accepted deposit adds exactly amount to the destination wallet's
\* balance of coin, an accepted withdraw subtracts exactly amount from the
\* source wallet's balance of coin; the transaction is stored under its
\* id; every other wallet, every other coin and field of that wallet, every
\* other stored transaction and the category, contact and price tables are
\* unchanged.
C6_DepositWithdrawEffect ==
    \A tx \in DepositTxs \cup WithdrawTxs :
        Added(tx).err = ErrNone
            => LET w == TargetWallet(tx)
                   d == IF tx.Type = TxTypeDeposit
                        THEN tx.Amount ELSE 0 - tx.Amount
                   after == Added(tx).st
               IN /\ DOMAIN after.data.Wallets = DOMAIN s.data.Wallets
                  /\ \A c \in Coins :
                        Bal(W(after, w).Balances, c)
                            = Bal(W(s, w).Balances, c)
                              + (IF c = tx.Coin THEN d ELSE 0)
                  /\ EntryCoins(W(after, w).Balances)
                        = EntryCoins(W(s, w).Balances) \cup {tx.Coin}
                  /\ W(after, w).Name = W(s, w).Name
                  /\ W(after, w).Category = W(s, w).Category
                  /\ \A n \in DOMAIN s.data.Wallets \ {w} : W(after, n) = W(s, n)
                  /\ after.data.Transactions
                        = MapPut(s.data.Transactions, tx.ID, tx)
                  /\ after.data.Categories = s.data.Categories
                  /\ after.data.Contacts = s.data.Contacts
                  /\ after.data.Prices = s.data.Prices

\* C6 witness: the first call stored a withdraw from a wallet without
\* balances, which now holds -amount of the coin, in a ledger that has a
\* category, a contact and prices.
C6_Witness ==
    /\ last.op = "AddTransaction" /\ last.err = ErrNone /\ calls = 1
    /\ "t1" \in DOMAIN s.data.Transactions
    /\ LET tx == s.data.Transactions["t1"]
       IN /\ tx.Type = TxTypeWithdraw
          /\ W(s, tx.FromWallet).Balances
                = <<[Coin |-> tx.Coin, Amount |-> 0 - tx.Amount]>>
    /\ s.data.Categories # <<>> /\ s.data.Contacts # <<>>

\* C7: when a deposit's destination wallet, a withdraw's source wallet or
\* a swap's wallet does not exist, AddTransaction returns the not-found
\* error (the duplicate error if the id is already used) and the store is
\* unchanged: no transaction stored, the id not marked as used, no balance
\* modified.
C7_RejectedInsertion ==
    \A tx \in DepositTxs \cup WithdrawTxs \cup SwapTxs :
        ~HasWallet(s, TargetWallet(tx))
            => /\ Added(tx).err
                    = IF IsDuplicate(s, tx) THEN ErrDuplicate ELSE ErrNotFound
               /\ Added(tx).st = s

\* C7 witness: the first call was an AddTransaction that returned the
\* not-found error; nothing is stored and no id is marked as used.
C7_Witness ==
    /\ last.op = "AddTransaction" /\ last.err = ErrNotFound /\ calls = 1
    /\ s.data.Transactions = <<>> /\ s.txIndex = {}
    /\ \A n \in DOMAIN s.data.Wallets : W(s, n).Balances = <<>>

\* C8: DeleteTransaction(id) returns the not-found error and leaves the
\* store unchanged when id is not stored; when id is stored it succeeds,
\* the id is no longer in the transaction map, and every other stored
\* transaction is untouched.
C8_DeleteTransaction ==
    \A id \in TxIDs :
        IF id \notin DOMAIN s.data.Transactions
        THEN Deleted(id).err = ErrNotFound /\ Deleted(id).st = s
        ELSE /\ Deleted(id).err = ErrNone
             /\ DOMAIN Deleted(id).st.data.Transactions
                    = DOMAIN s.data.Transactions \ {id}
             /\ \A j \in DOMAIN s.data.Transactions \ {id} :
                    Deleted(id).st.data.Transactions[j] = s.data.Transactions[j]

\* C8 witness: a DeleteTransaction has succeeded and another transaction
\* is still stored.
C8_Witness ==
    /\ last.op = "DeleteTransaction" /\ last.err = ErrNone
    /\ last.tx.ID \notin DOMAIN s.data.Transactions
    /\ s.data.Transactions # <<>>

\* The wallet names a stored transaction refers to.
Refs(tx) ==
    CASE tx.Type = TxTypeTransfer -> {tx.FromWallet, tx.ToWallet}
      [] OTHER -> {TargetWallet(tx)}

\* C9: DeleteTransaction changes a wallet only if the insertion of the
\* transaction changed that wallet's balance.  A wallet without any balance
\* entry has had no balance changed since it was created (updateBalance
\* always leaves an entry and nothing removes one), so the deletion of a
\* stored transaction (here: one that names no empty wallet name) must
\* leave it unchanged.
C9_DeletionTouchesOnlyInserted ==
    \A id \in DOMAIN s.data.Transactions :
        "" \notin Refs(s.data.Transactions[id])
            => \A n \in DOMAIN s.data.Wallets :
                    W(s, n).Balances = <<>> => W(Deleted(id).st, n) = W(s, n)

\* C10: DeleteTransaction of a stored transaction that refers to a name
\* that is no wallet (any more) succeeds and removes the transaction; it
\* creates no wallet; for a transfer of which one side is still a wallet,
\* that wallet's delta is reversed; wallets the transaction does not name
\* are unchanged.
C10_SkipsMissingWallet ==
    \A id \in DOMAIN s.data.Transactions :
        LET tx == s.data.Transactions[id]
            after == Deleted(id).st
        IN (\E n \in Refs(tx) : ~HasWallet(s, n))
            => /\ Deleted(id).err = ErrNone
               /\ id \notin DOMAIN after.data.Transactions
               /\ DOMAIN after.data.Wallets = DOMAIN s.data.Wallets
               /\ (tx.Type = TxTypeTransfer /\ HasWallet(s, tx.FromWallet))
                    => Bal(W(after, tx.FromWallet).Balances, tx.Coin)
                        = Bal(W(s, tx.FromWallet).Balances, tx.Coin) + tx.Amount
               /\ (tx.Type = TxTypeTransfer /\ HasWallet(s, tx.ToWallet))
                    => Bal(W(after, tx.ToWallet).Balances, tx.Coin)
                        = Bal(W(s, tx.ToWallet).Balances, tx.Coin) - tx.Amount
               /\ \A n \in DOMAIN s.data.Wallets \ Refs(tx) :
                    W(after, n) = W(s, n)

\* C10 witness: DeleteTransaction has succeeded on a deposit whose
\* destination wallet, which existed when the deposit was accepted, is gone.
C10_Witness ==
    /\ last.op = "DeleteTransaction" /\ last.err = ErrNone
    /\ last.tx.Type = TxTypeDeposit
    /\ ~HasWallet(s, last.tx.ToWallet)
    /\ last.tx.ID \notin DOMAIN s.data.Transactions

\* -------------------------------------------------------- command palette
\* CommandResult failures produced by the palette itself.
ErrUsage == "usage"
ErrAmount == "invalid amount"

\* The words a command line of the model is made of.
AmountArgs == {"-1", "0", "1", "x"}
CoinArgs == {"a", "A"}
\* The readings of time.Now().UnixNano() a call may get.
ClockReadings == {1, 2}

\* strconv.ParseFloat on the amount words of the model.
ParseFloat(word) ==
    CASE word = "-1" -> [ok |-> TRUE, val |-> 0 - 1]
      [] word = "0" -> [ok |-> TRUE, val |-> 0]
      [] word = "1" -> [ok |-> TRUE, val |-> 1]
      [] word = "2" -> [ok |-> TRUE, val |-> 2]
      [] OTHER -> [ok |-> FALSE, val |-> 0]

\* strings.ToUpper on the coin words of the model.
ToUpper(word) ==
    CASE word = "a" -> "A"
      [] word = "b" -> "B"
      [] OTHER -> word

\* strings.EqualFold
EqualFold(x, y) == ToUpper(x) = ToUpper(y)

\* Storage.GenerateTxID when the clock reads now.
GenerateTxID(now) == "tx_" \o ToString(now)

\* The command lines of the transaction commands: WALLET AMOUNT COIN,
\* FROM TO AMOUNT COIN, WALLET SELL_AMT SELL_COIN BUY_AMT BUY_COIN, and one
\* line that is too short.
WalletAmountCoinArgs ==
    {<<w, a, c>> : w \in WalletNames, a \in AmountArgs, c \in CoinArgs}
        \cup {<<"w1">>}
TransferArgs ==
    {<<f, t, a, c>> : f \in WalletNames, t \in WalletNames,
                       a \in AmountArgs, c \in CoinArgs}
        \cup {<<"w1">>}
SwapArgs ==
    {<<w, sa, sc, ba, bc>> : w \in WalletNames, sa \in AmountArgs,
                              sc \in CoinArgs, ba \in AmountArgs,
                              bc \in CoinArgs}
        \cup {<<"w1">>}

\* The model.Tx a transaction command builds (Date and Note left out).
depositTx(args, now) ==
    Tx(GenerateTxID(now), TxTypeDeposit, "", args[1], ToUpper(args[3]),
       ParseFloat(args[2]).val, "", "", 0, "", 0)
withdrawTx(args, now) ==
    Tx(GenerateTxID(now), TxTypeWithdraw, args[1], "", ToUpper(args[3]),
       ParseFloat(args[2]).val, "", "", 0, "", 0)
transferTx(args, now) ==
    Tx(GenerateTxID(now), TxTypeTransfer, args[1], args[2], ToUpper(args[4]),
       ParseFloat(args[3]).val, "", "", 0, "", 0)
swapTx(args, now) ==
    Tx(GenerateTxID(now), TxTypeSwap, "", "", "", 0, args[1],
       ToUpper(args[3]), ParseFloat(args[2]).val,
       ToUpper(args[5]), ParseFloat(args[4]).val)

\* CommandPalette.cmdDeposit
cmdDepositOp(st, args, now) ==
    IF Len(args) < 3 THEN Ret(ErrUsage, st)
    ELSE IF ~ParseFloat(args[2]).ok THEN Ret(ErrAmount, st)
    ELSE AddTransactionOp(st, depositTx(args, now))

\* CommandPalette.cmdWithdraw
cmdWithdrawOp(st, args, now) ==
    IF Len(args) < 3 THEN Ret(ErrUsage, st)
    ELSE IF ~ParseFloat(args[2]).ok THEN Ret(ErrAmount, st)
    ELSE AddTransactionOp(st, withdrawTx(args, now))

\* CommandPalette.cmdTransfer
cmdTransferOp(st, args, now) ==
    IF Len(args) < 4 THEN Ret(ErrUsage, st)
    ELSE IF ~ParseFloat(args[3]).ok THEN Ret(ErrAmount, st)
    ELSE AddTransactionOp(st, transferTx(args, now))

\* CommandPalette.cmdSwap
cmdSwapOp(st, args, now) ==
    IF Len(args) < 5 THEN Ret(ErrUsage, st)
    ELSE IF ~ParseFloat(args[2]).ok \/ ~ParseFloat(args[4]).ok
    THEN Ret(ErrAmount, st)
    ELSE AddTransactionOp(st, swapTx(args, now))

\* UpdateWallet keeping the entry under the old name on a rename.
UpdateWalletOp_KeepsOld(st, name, wallet) ==
    IF ~HasWallet(st, name)
    THEN Ret(ErrNotFound, st)
    ELSE Ret(ErrNone,
             [st EXCEPT !.data.Wallets = MapPut(@, wallet.Name, wallet)])

\* Storage.UpdateWallet
UpdateWalletOp(st, name, wallet) ==
    IF ~HasWallet(st, name)
    THEN Ret(ErrNotFound, st)
    ELSE Ret(ErrNone,
             [st EXCEPT !.data.Wallets =
                 MapPut(IF name # wallet.Name THEN MapDel(@, name) ELSE @,
                        wallet.Name, wallet)])

\* Index of the first balance entry whose coin equals the symbol under
\* case folding, 0 when there is none.
FirstFoldIdx(balances, coin) ==
    IF \E i \in 1..Len(balances) : EqualFold(balances[i].Coin, coin)
    THEN CHOOSE i \in 1..Len(balances) :
            /\ EqualFold(balances[i].Coin, coin)
            /\ \A j \in 1..(i - 1) : ~EqualFold(balances[j].Coin, coin)
    ELSE 0

\* setBalance without the search for an existing entry.
setBalance_AlwaysAppends(balances, coin, amount) ==
    Append(balances, [Coin |-> coin, Amount |-> amount])

\* cmdBalance, "Find or create balance".
setBalance(balances, coin, amount) ==
    LET i == FirstFoldIdx(balances, coin)
    IN IF i # 0
       THEN [balances EXCEPT ![i].Amount = amount]
       ELSE Append(balances, [Coin |-> coin, Amount |-> amount])

\* CommandPalette.cmdBalance
cmdBalanceOp(st, args) ==
    IF Len(args) < 3 THEN Ret(ErrUsage, st)
    ELSE IF ~ParseFloat(args[2]).ok THEN Ret(ErrAmount, st)
    ELSE IF ~HasWallet(st, args[1]) THEN Ret(ErrNotFound, st)
    ELSE LET s1 == [st EXCEPT !.data.Wallets[args[1]].Balances =
                        setBalance(@, ToUpper(args[3]),
                                   ParseFloat(args[2]).val)]
         IN UpdateWalletOp(s1, args[1], W(s1, args[1]))

\* The transaction a command submitted, NoTx when it stopped before.
Submitted(args, n, amountAt, tx) ==
    IF Len(args) >= n /\ \A i \in amountAt : ParseFloat(args[i]).ok
    THEN tx ELSE NoTx

cmdDeposit(args, now) ==
    Call("cmdDeposit", cmdDepositOp(s, args, now),
         Submitted(args, 3, {2}, depositTx(args, now)))

cmdWithdraw(args, now) ==
    Call("cmdWithdraw", cmdWithdrawOp(s, args, now),
         Submitted(args, 3, {2}, withdrawTx(args, now)))

cmdTransfer(args, now) ==
    Call("cmdTransfer", cmdTransferOp(s, args, now),
         Submitted(args, 4, {3}, transferTx(args, now)))

cmdSwap(args, now) ==
    Call("cmdSwap", cmdSwapOp(s, args, now),
         Submitted(args, 5, {2, 4}, swapTx(args, now)))

cmdBalance(args) ==
    Call("cmdBalance", cmdBalanceOp(s, args), NoTx)

\* Transactions added through the store directly, whose coin symbol is
\* stored as given.
ApiTxs ==
    {Tx("t1", TxTypeDeposit, "", w, c, 1, "", "", 0, "", 0) :
        w \in WalletNames, c \in CoinArgs}

\* The command lines the palette actions draw: one wallet, the coin in
\* lower case (the commands convert it), an amount of each sign and one
\* that does not parse, a line that is too short.
DepositLines == {<<"w1", a, "a">> : a \in {"-1", "1", "x"}} \cup {<<"w1">>}
WithdrawLines == {<<"w1", "0", "a">>, <<"w2", "1", "a">>}
TransferLines == {<<"w1", "w2", "1", "a">>}
SwapLines == {<<"w1", "1", "a", "0", "A">>, <<"w1", "1", "a", "x", "A">>}
BalanceLines == {<<"w1", "0", "a">>, <<"w1", "1", "A">>, <<"w2", "x", "a">>}

NextPalette ==
    \/ \E args \in DepositLines, now \in ClockReadings : cmdDeposit(args, now)
    \/ \E args \in WithdrawLines, now \in ClockReadings :
          cmdWithdraw(args, now)
    \/ \E args \in TransferLines, now \in ClockReadings :
          cmdTransfer(args, now)
    \/ \E args \in SwapLines, now \in ClockReadings : cmdSwap(args, now)
    \/ \E args \in BalanceLines : cmdBalance(args)
    \/ \E tx \in ApiTxs : AddTransaction(tx)
    \/ \E id \in DOMAIN s.data.Transactions : DeleteTransaction(id)

SpecPalette == Init /\ [][NextPalette]_vars

\* Amounts that are not positive, and the transactions that carry one.
NonPositiveAmounts == {0 - 1, 0}
NonPositiveTxs ==
    {Tx("t2", typ, w, w, "A", a, "", "", 0, "", 0) :
        typ \in {TxTypeDeposit, TxTypeWithdraw, TxTypeTransfer},
        w \in WalletNames, a \in NonPositiveAmounts}
    \cup {Tx("t2", TxTypeSwap, "", "", "", 0, w, "A", sa, "B", ba) :
            w \in WalletNames, sa \in NonPositiveAmounts \cup Amounts,
            ba \in NonPositiveAmounts}

\* A command line whose amount words at the given places all parse and of
\* which one is zero or negative.
HasNonPositive(args, n, amountAt) ==
    /\ Len(args) >= n
    /\ \A i \in amountAt : ParseFloat(args[i]).ok
    /\ \E i \in amountAt : ParseFloat(args[i]).val <= 0

\* A call that was refused and changed nothing.
Refused(r) == r.err # ErrNone /\ r.st = s

\* C11: a transaction with a zero or negative amount (for a swap: a zero or
\* negative sellAmount or buyAmount) is rejected, by AddTransaction and by
\* the deposit, withdraw, transfer and swap commands of the palette, and
\* the store is unchanged: nothing stored, no balance modified.
C11_PositiveAmounts ==
    /\ \A tx \in NonPositiveTxs : Refused(Added(tx))
    /\ \A now \in ClockReadings :
        /\ \A args \in WalletAmountCoinArgs :
              HasNonPositive(args, 3, {2})
                => /\ Refused(cmdDepositOp(s, args, now))
                   /\ Refused(cmdWithdrawOp(s, args, now))
        /\ \A args \in TransferArgs :
              HasNonPositive(args, 4, {3})
                => Refused(cmdTransferOp(s, args, now))
        /\ \A args \in SwapArgs :
              HasNonPositive(args, 5, {2, 4})
                => Refused(cmdSwapOp(s, args, now))

\* C12: every wallet has at most one balance entry per coin symbol
\* (compared case-sensitively), in every state reached from wallets without
\* duplicate entries by AddTransaction, DeleteTransaction, the transaction
\* commands and the balance-set command of the palette.
C12_OneEntryPerCoin ==
    \A n \in DOMAIN s.data.Wallets :
        \A i, j \in 1..Len(W(s, n).Balances) :
            W(s, n).Balances[i].Coin = W(s, n).Balances[j].Coin => i = j

\* C12 witness: the balance-set command has succeeded on a wallet that has
\* an entry for a coin in lower case and one for the same coin in upper
\* case, i.e. two entries that differ in case only.
C12_Witness ==
    /\ last.op = "cmdBalance" /\ last.err = ErrNone
    /\ \E n \in DOMAIN s.data.Wallets :
          {"a", "A"} \subseteq EntryCoins(W(s, n).Balances)

\* The wallet, coin and amount a withdraw, transfer or swap takes out.
DebitWallet(tx) ==
    IF tx.Type = TxTypeSwap THEN tx.SwapWallet ELSE tx.FromWallet
DebitCoin(tx) == IF tx.Type = TxTypeSwap THEN tx.SellCoin ELSE tx.Coin
DebitAmount(tx) == IF tx.Type = TxTypeSwap THEN tx.SellAmount ELSE tx.Amount

\* A withdraw, transfer-out or swap-sell of more than the wallet holds,
\* which puts nothing of that coin back into the same wallet.
Overdraws(st, tx) ==
    /\ tx.Type # TxTypeDeposit
    /\ ~IsDuplicate(st, tx)
    /\ HasWallet(st, DebitWallet(tx))
    /\ DebitAmount(tx) > Bal(W(st, DebitWallet(tx)).Balances, DebitCoin(tx))
    /\ tx.Type = TxTypeTransfer => tx.ToWallet # tx.FromWallet
    /\ tx.Type = TxTypeSwap => tx.BuyCoin # tx.SellCoin

\* Every wallet of the store before is a wallet of the store after and
\* has kept an entry for every coin it had one for.
KeepsEntries(before, after) ==
    \A n \in DOMAIN before.data.Wallets :
        /\ HasWallet(after, n)
        /\ EntryCoins(W(before, n).Balances)
                \subseteq EntryCoins(W(after, n).Balances)

C14_StoredTxImmutable ==
    [][\A id \in DOMAIN s.data.Transactions :
          id \in DOMAIN s'.data.Transactions
            => s'.data.Transactions[id] = s.data.Transactions[id]]_vars

\* The palette's transaction commands.
TxCommands == {"cmdDeposit", "cmdWithdraw", "cmdTransfer", "cmdSwap"}

\* C15: an identifier GenerateTxID returns differs from every identifier
\* it returned before in the process, whatever the clock reads: after a
\* transaction command has stored its transaction, the identifier of the
\* next call is another one and the next transaction command is not
\* refused as a duplicate.
C15_GeneratedIdsUnique ==
    (last.op \in TxCommands /\ last.err = ErrNone)
        => \A now \in ClockReadings :
              /\ GenerateTxID(now) # last.tx.ID
              /\ \A args \in WalletAmountCoinArgs :
                    cmdDepositOp(s, args, now).err # ErrDuplicate

\* ----------------------------------------------- wallets, categories, contacts
CategoryNames == {"c1", "c2"}
ContactNames == {"k1", "k2"}
\* generateRandomColor picks one of its colours.
Colors == {"red", "blue"}

\* model.Category and model.Contact with the fields the store keeps.
Category(name, color) == [Name |-> name, Color |-> color]
Contact(name, address) == [Name |-> name, Address |-> address]

\* Storage.AddCategory
AddCategoryOp(st, category) ==
    IF category.Name \in DOMAIN st.data.Categories
    THEN Ret(ErrDuplicate, st)
    ELSE Ret(ErrNone,
             [st EXCEPT !.data.Categories = MapPut(@, category.Name, category)])

\* DeleteCategory clearing the category of every wallet.
DeleteCategoryOp_ClearsAll(st, name) ==
    IF name \notin DOMAIN st.data.Categories
    THEN Ret(ErrNotFound, st)
    ELSE Ret(ErrNone,
             [st EXCEPT !.data.Categories = MapDel(@, name),
                        !.data.Wallets =
                            [n \in DOMAIN @ |-> [@[n] EXCEPT !.Category = ""]]])

\* Storage.DeleteCategory
DeleteCategoryOp(st, name) ==
    IF name \notin DOMAIN st.data.Categories
    THEN Ret(ErrNotFound, st)
    ELSE Ret(ErrNone,
             [st EXCEPT !.data.Categories = MapDel(@, name),
                        !.data.Wallets =
                            [n \in DOMAIN @ |->
                                IF @[n].Category = name
                                THEN [@[n] EXCEPT !.Category = ""]
                                ELSE @[n]]])

\* Storage.AddContact
AddContactOp(st, contact) ==
    IF contact.Name \in DOMAIN st.data.Contacts
    THEN Ret(ErrDuplicate, st)
    ELSE Ret(ErrNone,
             [st EXCEPT !.data.Contacts = MapPut(@, contact.Name, contact)])

\* Storage.DeleteContact
DeleteContactOp(st, name) ==
    IF name \notin DOMAIN st.data.Contacts
    THEN Ret(ErrNotFound, st)
    ELSE Ret(ErrNone, [st EXCEPT !.data.Contacts = MapDel(@, name)])

\* Storage.GetWalletTransactions: the ids of the transactions that name
\* the wallet as source, destination or swap wallet.
GetWalletTransactions(st, walletName) ==
    {id \in DOMAIN st.data.Transactions :
        walletName \in {st.data.Transactions[id].FromWallet,
                        st.data.Transactions[id].ToWallet,
                        st.data.Transactions[id].SwapWallet}}

\* Storage.load: the defaults when there is no data file, else the document.
load(file) == IF file = NoFile THEN EmptyData ELSE file

\* storage.New on the data file.
New(file) == [data |-> load(file), txIndex |-> buildTxIndex(load(file))]

\* The `wallet del NAME` command: a new process opens the store and calls
\* DeleteWallet.
delWalletCmdOp(file, name) == DeleteWalletOp(New(file), name)

\* A document saved by earlier processes: wallet w1 of category c1 with a
\* deposit t1 of 1 A, the wallets ns \ {w1} of category cat without
\* balances, two categories and a contact.
StoredData(ns, cat) ==
    [Wallets |->
        [n \in ns |->
            IF n = "w1"
            THEN [Name |-> n, Category |-> "c1",
                  Balances |-> <<[Coin |-> "A", Amount |-> 1]>>]
            ELSE Wallet(n, cat)],
     Categories |->
        [n \in CategoryNames |->
            Category(n, IF n = "c1" THEN "red" ELSE "blue")],
     Contacts |-> [n \in {"k1"} |-> Contact(n, "addr1")],
     Transactions |->
        [id \in {"t1"} |->
            Tx(id, TxTypeDeposit, "", "w1", "A", 1, "", "", 0, "", 0)],
     Prices |-> [c \in {"usdc", "usdt"} |-> 1]]

LedgerData ==
    {StoredData(ns, cat) :
        ns \in {{"w1"}, {"w1", "w2"}}, cat \in CategoryNames \cup {""}}

InitLedger ==
    /\ \E d \in LedgerData :
          /\ s = New(d)
          /\ dataFile = d
    /\ last = [op |-> "New", err |-> ErrNone, tx |-> NoTx]
    /\ calls = 0
    /\ cp = NewCommandPalette
    /\ dash = NoDashboard
    /\ other = NoInstance

\* The wallets a caller of UpdateWallet passes for a name: the stored
\* wallet (a new one if there is none) under any name and category.
UpdatedWallets(st, name) ==
    LET base == IF HasWallet(st, name) THEN W(st, name) ELSE Wallet(name, "")
    IN {[base EXCEPT !.Name = n, !.Category = c] :
            n \in WalletNames, c \in CategoryNames \cup {""}}

UpdateWallet(name, wallet) ==
    Call("UpdateWallet", UpdateWalletOp(s, name, wallet), NoTx)

AddCategory(name, color) ==
    Call("AddCategory", AddCategoryOp(s, Category(name, color)), NoTx)

DeleteCategory(name) ==
    Call("DeleteCategory", DeleteCategoryOp(s, name), NoTx)

AddContact(name) ==
    Call("AddContact", AddContactOp(s, Contact(name, "addr2")), NoTx)

DeleteContact(name) ==
    Call("DeleteContact", DeleteContactOp(s, name), NoTx)

delWalletCmd(name) ==
    Call("delWalletCmd", delWalletCmdOp(dataFile, name), NoTx)

NextLedger ==
    \/ \E n \in WalletNames, c \in {"", "c1"} : AddWallet(n, c)
    \/ \E n \in WalletNames : DeleteWallet(n)
    \/ \E n \in WalletNames : \E w \in UpdatedWallets(s, n) : UpdateWallet(n, w)
    \/ \E n \in CategoryNames, c \in Colors : AddCategory(n, c)
    \/ \E n \in CategoryNames : DeleteCategory(n)
    \/ \E n \in ContactNames : AddContact(n)
    \/ \E n \in ContactNames : DeleteContact(n)
    \/ \E n \in WalletNames : delWalletCmd(n)

SpecLedger == InitLedger /\ [][NextLedger]_vars

\* C16: AddWallet, AddCategory and AddContact return the duplicate error
\* and leave the store (the existing entry with its category and balances
\* included) unchanged when an entry of that kind has the name; otherwise
\* they succeed and the new entry is stored under its name.
C16_UniqueNamesOnInsert ==
    /\ \A n \in WalletNames, c \in CategoryNames \cup {""} :
          LET r == AddWalletOp(s, Wallet(n, c))
          IN IF HasWallet(s, n)
             THEN r.err = ErrDuplicate /\ r.st = s
             ELSE /\ r.err = ErrNone
                  /\ HasWallet(r.st, n) /\ W(r.st, n) = Wallet(n, c)
    /\ \A n \in CategoryNames, c \in Colors :
          LET r == AddCategoryOp(s, Category(n, c))
          IN IF n \in DOMAIN s.data.Categories
             THEN r.err = ErrDuplicate /\ r.st = s
             ELSE /\ r.err = ErrNone
                  /\ n \in DOMAIN r.st.data.Categories
                  /\ r.st.data.Categories[n] = Category(n, c)
    /\ \A n \in ContactNames :
          LET r == AddContactOp(s, Contact(n, "addr2"))
          IN IF n \in DOMAIN s.data.Contacts
             THEN r.err = ErrDuplicate /\ r.st = s
             ELSE /\ r.err = ErrNone
                  /\ n \in DOMAIN r.st.data.Contacts
                  /\ r.st.data.Contacts[n] = Contact(n, "addr2")

\* C16 witness: the first call was an AddWallet refused as a duplicate, and
\* the wallet of that name still has its category and its balance.
C16_Witness ==
    /\ last.op = "AddWallet" /\ last.err = ErrDuplicate /\ calls = 1
    /\ HasWallet(s, "w1")
    /\ W(s, "w1").Category = "c1"
    /\ W(s, "w1").Balances = <<[Coin |-> "A", Amount |-> 1]>>
    /\ dataFile = s.data

\* C17: UpdateWallet(oldName, w) returns the not-found error and changes
\* nothing when oldName is no wallet; otherwise it succeeds and w is stored
\* under w.Name; on a rename oldName is no wallet afterwards, and if w.Name
\* was the name of another wallet, that wallet's entry is replaced by w and
\* there is one wallet less.
C17_UpdateWalletRename ==
    \A n \in WalletNames :
        \A w \in UpdatedWallets(s, n) :
            LET r == UpdateWalletOp(s, n, w)
            IN IF ~HasWallet(s, n)
               THEN r.err = ErrNotFound /\ r.st = s
               ELSE /\ r.err = ErrNone
                    /\ HasWallet(r.st, w.Name) /\ W(r.st, w.Name) = w
                    /\ w.Name # n => ~HasWallet(r.st, n)
                    /\ (w.Name # n /\ HasWallet(s, w.Name))
                        => Cardinality(DOMAIN r.st.data.Wallets)
                            = Cardinality(DOMAIN s.data.Wallets) - 1
                    /\ (w.Name # n /\ ~HasWallet(s, w.Name))
                        => Cardinality(DOMAIN r.st.data.Wallets)
                            = Cardinality(DOMAIN s.data.Wallets)

\* C17 witness: the first call renamed w2, which had no balances, to w1:
\* w1's entry with its balance has been overwritten and one wallet is left.
C17_Witness ==
    /\ last.op = "UpdateWallet" /\ last.err = ErrNone /\ calls = 1
    /\ DOMAIN s.data.Wallets = {"w1"}
    /\ W(s, "w1").Balances = <<>>

\* C18: DeleteWallet(name) returns the not-found error and changes nothing
\* when name is no wallet; otherwise it removes that wallet only: the
\* other wallets, the transaction map, the categories, contacts and prices
\* are unchanged.
C18_DeleteWalletNoCascade ==
    \A n \in WalletNames :
        LET r == DeleteWalletOp(s, n)
        IN IF ~HasWallet(s, n)
           THEN r.err = ErrNotFound /\ r.st = s
           ELSE /\ r.err = ErrNone
                /\ r.st.data.Wallets = MapDel(s.data.Wallets, n)
                /\ r.st.data.Transactions = s.data.Transactions
                /\ r.st.data.Categories = s.data.Categories
                /\ r.st.data.Contacts = s.data.Contacts
                /\ r.st.data.Prices = s.data.Prices

\* C18 witness: DeleteWallet has removed w1 and the deposit into w1 is
\* still stored.
C18_Witness ==
    /\ last.op = "DeleteWallet" /\ last.err = ErrNone
    /\ ~HasWallet(s, "w1")
    /\ GetWalletTransactions(s, "w1") # {}

\* C19: after the `wallet del NAME` command has succeeded the ledger stores
\* no transaction that names NAME as source, destination or swap wallet,
\* and a wallet added under that name afterwards has no transactions.
C19_WalletDelCascades ==
    \A n \in WalletNames :
        LET r == delWalletCmdOp(dataFile, n)
        IN r.err = ErrNone
            => /\ GetWalletTransactions(r.st, n) = {}
               /\ GetWalletTransactions(AddWalletOp(r.st, Wallet(n, "")).st, n)
                    = {}

\* C20: DeleteCategory(c) returns the not-found error and changes nothing
\* when c is no category; otherwise c is no category afterwards, the other
\* categories are unchanged, no wallet is deleted, the wallets of category c
\* have the empty category and every other field of every wallet
\* (balances included) is unchanged.
C20_DeleteCategoryNoCascade ==
    \A c \in CategoryNames :
        LET r == DeleteCategoryOp(s, c)
        IN IF c \notin DOMAIN s.data.Categories
           THEN r.err = ErrNotFound /\ r.st = s
           ELSE /\ r.err = ErrNone
                /\ r.st.data.Categories = MapDel(s.data.Categories, c)
                /\ DOMAIN r.st.data.Wallets = DOMAIN s.data.Wallets
                /\ \A n \in DOMAIN s.data.Wallets :
                      /\ W(r.st, n).Category
                            = IF W(s, n).Category = c
                              THEN "" ELSE W(s, n).Category
                      /\ W(r.st, n).Name = W(s, n).Name
                      /\ W(r.st, n).Balances = W(s, n).Balances
                /\ r.st.data.Transactions = s.data.Transactions
                /\ r.st.data.Contacts = s.data.Contacts

\* C20 witness: the first call deleted category c1: w1, which had it, has
\* no category and still its balance, and w2 still has category c2.
C20_Witness ==
    /\ last.op = "DeleteCategory" /\ last.err = ErrNone /\ calls = 1
    /\ "c1" \notin DOMAIN s.data.Categories
    /\ HasWallet(s, "w1") /\ W(s, "w1").Category = ""
    /\ W(s, "w1").Balances = <<[Coin |-> "A", Amount |-> 1]>>
    /\ HasWallet(s, "w2") /\ W(s, "w2").Category = "c2"

\* ------------------------------------------------------------------ prices
\* strings.ToLower on the coin words of the model.
ToLower(word) ==
    CASE word = "A" -> "a"
      [] word = "B" -> "b"
      [] word = "ADD" -> "add"
      [] word = "Wallet" -> "wallet"
      [] word = "Q" -> "q"
      [] OTHER -> word

\* The coin symbols a price is set or asked for, and the prices set.
PriceSymbols == {"a", "A"}
PriceValues == {3, 4}

\* Storage.SetPrice
SetPriceOp(st, coin, price) ==
    Ret(ErrNone, [st EXCEPT !.data.Prices = MapPut(@, coin, price)])

\* CommandPalette.cmdPrice
cmdPriceOp(st, args) ==
    IF Len(args) < 2 THEN Ret(ErrUsage, st)
    ELSE IF ~ParseFloat(args[2]).ok THEN Ret(ErrAmount, st)
    ELSE SetPriceOp(st, ToLower(args[1]), ParseFloat(args[2]).val)

\* util.GetCoinPrices: a new store instance reads the data file; the
\* prices found under the lowercase form of the requested symbols.
GetCoinPrices(file, coinSymbols) ==
    LET allPrices == New(file).data.Prices
    IN [k \in {ToLower(sym) : sym \in coinSymbols} \cap DOMAIN allPrices
            |-> allPrices[k]]

\* ------------------------------------------------- persistence, processes
\* The error of Storage.save when the file cannot be written.
ErrWrite == "failed to write data file"

\* The mutating methods of the store.
StoreOps ==
    {"AddWallet", "UpdateWallet", "DeleteWallet", "AddCategory",
     "DeleteCategory", "AddContact", "DeleteContact", "SetPrice",
     "AddTransaction", "DeleteTransaction"}

\* Mutate undoing the in-memory mutation when the write fails.
Mutate_RollsBack(op, r, tx, writeOK) ==
    /\ calls < MaxCalls
    /\ calls' = calls + 1
    /\ s' = IF r.err = ErrNone /\ ~writeOK THEN s ELSE r.st
    /\ dataFile' = IF r.err = ErrNone /\ writeOK THEN save(r.st) ELSE dataFile
    /\ last' = [op |-> op,
                err |-> IF r.err = ErrNone /\ ~writeOK THEN ErrWrite ELSE r.err,
                tx |-> tx]
    /\ UNCHANGED <<cp, dash, other>>

\* A mutating store method whose final save may fail: the method has
\* changed the ledger in memory and `return s.save()` hands the write
\* error to the caller.
Mutate(op, r, tx, writeOK) ==
    /\ calls < MaxCalls
    /\ calls' = calls + 1
    /\ s' = r.st
    /\ dataFile' = IF r.err = ErrNone /\ writeOK THEN save(r.st) ELSE dataFile
    /\ last' = [op |-> op,
                err |-> IF r.err = ErrNone /\ ~writeOK THEN ErrWrite ELSE r.err,
                tx |-> tx]
    /\ UNCHANGED <<cp, dash, other>>

\* The deposit the AddTransaction step of this part submits.
PersistTx == Tx("t1", TxTypeDeposit, "", "w1", "A", 1, "", "", 0, "", 0)

\* A second process opens the store: storage.New reads the data file.
otherNew ==
    /\ calls < MaxCalls
    /\ calls' = calls + 1
    /\ other' = New(dataFile)
    /\ last' = [op |-> "otherNew", err |-> ErrNone, tx |-> NoTx]
    /\ UNCHANGED <<s, dataFile, cp, dash>>

\* otherSave writing the wallets found in the file next to its own.
otherSave_Merges(file, st) ==
    [st.data EXCEPT !.Wallets =
        [n \in DOMAIN @ \cup DOMAIN load(file).Wallets |->
            IF n \in DOMAIN @ THEN @[n] ELSE load(file).Wallets[n]]]

\* The document the second process writes over the data file.
otherSave(file, st) == save(st)

\* The second process makes a successful mutation on its instance and
\* saves.
otherMutate(op, r) ==
    /\ calls < MaxCalls
    /\ other # NoInstance
    /\ r.err = ErrNone
    /\ calls' = calls + 1
    /\ other' = r.st
    /\ dataFile' = otherSave(dataFile, r.st)
    /\ last' = [op |-> op, err |-> ErrNone, tx |-> NoTx]
    /\ UNCHANGED <<s, cp, dash>>

NextPersist ==
    \/ \E ok \in BOOLEAN :
          Mutate("AddWallet", AddWalletOp(s, Wallet("w2", "")), NoTx, ok)
    \/ \E ok \in BOOLEAN :
          /\ HasWallet(s, "w1")
          /\ Mutate("UpdateWallet",
                    UpdateWalletOp(s, "w1", [W(s, "w1") EXCEPT !.Category = "c1"]),
                    NoTx, ok)
    \/ \E ok \in BOOLEAN :
          Mutate("DeleteWallet", DeleteWalletOp(s, "w1"), NoTx, ok)
    \/ \E ok \in BOOLEAN :
          Mutate("AddCategory", AddCategoryOp(s, Category("c2", "blue")),
                 NoTx, ok)
    \/ \E ok \in BOOLEAN :
          Mutate("DeleteCategory", DeleteCategoryOp(s, "c1"), NoTx, ok)
    \/ \E ok \in BOOLEAN :
          Mutate("AddContact", AddContactOp(s, Contact("k2", "addr2")),
                 NoTx, ok)
    \/ \E ok \in BOOLEAN :
          Mutate("DeleteContact", DeleteContactOp(s, "k1"), NoTx, ok)
    \/ \E ok \in BOOLEAN, coin \in PriceSymbols :
          Mutate("SetPrice", SetPriceOp(s, coin, 3), NoTx, ok)
    \/ \E ok \in BOOLEAN :
          Mutate("AddTransaction", AddTransactionOp(s, PersistTx),
                 PersistTx, ok)
    \/ \E ok \in BOOLEAN :
          Mutate("DeleteTransaction", DeleteTransactionOp(s, "t1"), NoTx, ok)
    \/ otherNew
    \/ otherMutate("otherAddWallet", AddWalletOp(other, Wallet("w2", "")))
    \/ otherMutate("otherAddContact",
                   AddContactOp(other, Contact("k3", "addr3")))

SpecPersist == Init /\ [][NextPersist]_vars

\* C21: every key of the price table is lowercase, and a price set with
\* SetPrice for a symbol in any letter case is the price GetCoinPrices
\* returns for that symbol.
C21_PriceKeysLowercase ==
    /\ \A k \in DOMAIN s.data.Prices : ToLower(k) = k
    /\ \A coin \in PriceSymbols, p \in PriceValues :
          GetCoinPrices(save(SetPriceOp(s, coin, p).st), {coin})
            = [k \in {ToLower(coin)} |-> p]

\* C22: after a mutating store method has returned success, the persisted
\* document equals the in-memory ledger in all five maps.
C22_SuccessPersistsAggregate ==
    (last.op \in StoreOps /\ last.err = ErrNone)
        => /\ dataFile.Wallets = s.data.Wallets
           /\ dataFile.Categories = s.data.Categories
           /\ dataFile.Contacts = s.data.Contacts
           /\ dataFile.Transactions = s.data.Transactions
           /\ dataFile.Prices = s.data.Prices

\* C22 witness: AddTransaction has succeeded after an earlier call, and the
\* document holds the transaction and the balance it produced.
C22_Witness ==
    /\ last.op = "AddTransaction" /\ last.err = ErrNone /\ calls >= 2
    /\ "t1" \in DOMAIN dataFile.Transactions
    /\ \E i \in 1..Len(dataFile.Wallets["w1"].Balances) :
          dataFile.Wallets["w1"].Balances[i].Coin = "A"

\* The methods that change the ledger whenever they get as far as save.
AlwaysChanging == StoreOps \ {"SetPrice", "UpdateWallet"}

\* C29: when the write fails the method returns the write error, the data
\* file is as before and the ledger in memory keeps the mutation (for
\* AddTransaction: the balance delta, the stored transaction and the used
\* id), so a ledger that was in step with the file no longer is; a
\* mutation that then succeeds brings the file in step again.
C29_PersistFailureKeepsMutation ==
    [][/\ last'.err = ErrWrite
            => /\ dataFile' = dataFile
               /\ last'.op \in AlwaysChanging => s'.data # s.data
               /\ (last'.op \in AlwaysChanging /\ load(dataFile) = s.data)
                    => load(dataFile') # s'.data
               /\ last'.op = "AddTransaction"
                    => /\ s' = AddTransactionOp(s, last'.tx).st
                       /\ last'.tx.ID \in s'.txIndex
                       /\ s'.data.Transactions[last'.tx.ID] = last'.tx
                       /\ Bal(W(s', last'.tx.ToWallet).Balances, last'.tx.Coin)
                            = Bal(W(s, last'.tx.ToWallet).Balances,
                                  last'.tx.Coin) + last'.tx.Amount
       /\ (last'.op \in StoreOps /\ last'.err = ErrNone)
            => dataFile' = s'.data]_vars

\* C29 witness: AddTransaction has returned the write error; the
\* transaction is in memory and not in the data file.
C29_Witness ==
    /\ last.op = "AddTransaction" /\ last.err = ErrWrite
    /\ "t1" \in DOMAIN s.data.Transactions
    /\ "t1" \in s.txIndex
    /\ "t1" \notin DOMAIN load(dataFile).Transactions

\* The steps by which the second process writes the data file.
OtherOps == {"otherAddWallet", "otherAddContact"}

\* C30: the data file equals the whole in-memory ledger of the instance
\* that persisted last, so a mutation persisted by the other instance is in
\* the file only if the last writer's ledger has it, i.e. if that instance
\* loaded the file after the mutation was persisted.
C30_LastWriteWins ==
    /\ (last.op \in StoreOps /\ last.err = ErrNone) => dataFile = save(s)
    /\ last.op \in OtherOps => dataFile = save(other)

\* C30 witness: the second process loaded the file and persisted a new
\* contact, then this instance, which had loaded the file before that,
\* persisted a mutation: the contact is not in the file.
C30_Witness ==
    /\ last.op \in StoreOps /\ last.err = ErrNone
    /\ other # NoInstance
    /\ "k3" \in DOMAIN other.data.Contacts
    /\ "k3" \notin DOMAIN dataFile.Contacts

\* ---------------------------------------------------- command line, history
\* An input line is a sequence of pieces: a piece is a word (it has no
\* white space in it) or Blank, one white-space character.
Blank == " "

\* strings.TrimSpace: the line without its leading and trailing blanks; the
\* empty line is <<>>.
TrimSpace(input) ==
    LET idx == {i \in 1..Len(input) : input[i] # Blank}
    IN IF idx = {} THEN <<>>
       ELSE SubSeq(input,
                   CHOOSE i \in idx : \A j \in idx : i <= j,
                   CHOOSE i \in idx : \A j \in idx : i >= j)

\* strings.Fields: the words of the line.
Fields(input) == SelectSeq(input, LAMBDA piece : piece # Blank)

\* The messages of the failures Execute, cmdAdd and cmdDelete detect.
ErrUnknownCommand == "Unknown command"
ErrUnknownType == "Unknown type"

\* CommandResult, with the store instance the command left behind and
\* whether a store method saved it.
CommandResult(success, quit, isHelp, message, st, saved) ==
    [Success |-> success, Quit |-> quit, IsHelp |-> isHelp,
     Message |-> message, st |-> st, saved |-> saved]

\* The result every cmd* method builds from what it or the store method it
\* called returned.
ResultOf(r) ==
    CommandResult(r.err = ErrNone, FALSE, FALSE, r.err, r.st, r.err = ErrNone)

\* CommandPalette.cmdAdd; the chain and the type cut from the third word
\* and the note are fields of the wallet the store does not look at.
cmdAddOp(st, args, randomColor) ==
    IF Len(args) < 1 THEN Ret(ErrUsage, st)
    ELSE LET sub == ToLower(args[1])
             subArgs == Tail(args)
         IN CASE sub \in {"wallet", "w"} ->
                   IF Len(subArgs) < 3 THEN Ret(ErrUsage, st)
                   ELSE AddWalletOp(st,
                            Wallet(subArgs[1],
                                   IF Len(subArgs) > 3 THEN subArgs[4]
                                   ELSE ""))
              [] sub \in {"category", "cat", "c"} ->
                   IF Len(subArgs) < 1 THEN Ret(ErrUsage, st)
                   ELSE AddCategoryOp(st,
                            Category(subArgs[1],
                                     IF Len(subArgs) > 1 THEN subArgs[2]
                                     ELSE randomColor))
              [] sub \in {"contact", "con"} ->
                   IF Len(subArgs) < 2 THEN Ret(ErrUsage, st)
                   ELSE AddContactOp(st, Contact(subArgs[1], subArgs[2]))
              [] OTHER -> Ret(ErrUnknownType, st)

\* CommandPalette.cmdDelete
cmdDeleteOp(st, args) ==
    IF Len(args) < 2 THEN Ret(ErrUsage, st)
    ELSE LET sub == ToLower(args[1])
             name == args[2]
         IN CASE sub \in {"wallet", "w"} -> DeleteWalletOp(st, name)
              [] sub \in {"category", "cat", "c"} ->
                   DeleteCategoryOp(st, name)
              [] sub \in {"contact", "con"} -> DeleteContactOp(st, name)
              [] sub \in {"tx", "transaction"} ->
                   DeleteTransactionOp(st, name)
              [] OTHER -> Ret(ErrUnknownType, st)

\* The switch of Execute on the lowercased first word.
Dispatch(st, cmd, args, now, randomColor) ==
    CASE cmd \in {"q", "quit", "exit"} ->
            CommandResult(FALSE, TRUE, FALSE, "", st, FALSE)
      [] cmd \in {"add", "a"} -> ResultOf(cmdAddOp(st, args, randomColor))
      [] cmd \in {"del", "d", "delete", "rm"} -> ResultOf(cmdDeleteOp(st, args))
      [] cmd \in {"deposit", "dep"} -> ResultOf(cmdDepositOp(st, args, now))
      [] cmd \in {"withdraw", "wd"} -> ResultOf(cmdWithdrawOp(st, args, now))
      [] cmd \in {"transfer", "tf"} -> ResultOf(cmdTransferOp(st, args, now))
      [] cmd \in {"swap", "sw"} -> ResultOf(cmdSwapOp(st, args, now))
      [] cmd \in {"balance", "bal", "b"} -> ResultOf(cmdBalanceOp(st, args))
      [] cmd \in {"price", "p"} -> ResultOf(cmdPriceOp(st, args))
      [] cmd \in {"help", "h", "?"} ->
            CommandResult(TRUE, FALSE, TRUE, "", st, FALSE)
      [] OTHER -> CommandResult(FALSE, FALSE, FALSE, ErrUnknownCommand,
                                st, FALSE)

\* Execute recording the line only when the command succeeded.
ExecuteOp_RecordsSuccessOnly(st, pal, input, now, randomColor) ==
    LET line == TrimSpace(input)
        res == IF line = <<>>
               THEN CommandResult(FALSE, FALSE, FALSE, "", st, FALSE)
               ELSE Dispatch(st, ToLower(Fields(line)[1]),
                             Tail(Fields(line)), now, randomColor)
    IN [res |-> res,
        cp |-> IF res.Success
               THEN [history |-> Append(pal.history, line),
                     histIdx |-> Len(pal.history) + 1]
               ELSE pal]

\* Execute running a command before it has counted the arguments.
ExecuteOp_RunsShortLines(st, pal, input, now, randomColor) ==
    LET line == TrimSpace(input)
        parts == Fields(line)
    IN IF line = <<>>
       THEN [res |-> CommandResult(FALSE, FALSE, FALSE, "", st, FALSE),
             cp |-> pal]
       ELSE [res |-> IF ToLower(parts[1]) \in {"del", "d", "delete", "rm"}
                        /\ Len(parts) = 2
                     THEN [ResultOf(DeleteWalletOp(st, "w1"))
                               EXCEPT !.Success = FALSE]
                     ELSE Dispatch(st, ToLower(parts[1]), Tail(parts), now,
                                   randomColor),
             cp |-> [history |-> Append(pal.history, line),
                     histIdx |-> Len(pal.history) + 1]]

\* CommandPalette.Execute: the result and the palette afterwards.
ExecuteOp(st, pal, input, now, randomColor) ==
    LET line == TrimSpace(input)
        parts == Fields(line)
    IN IF line = <<>>
       THEN [res |-> CommandResult(FALSE, FALSE, FALSE, "", st, FALSE),
             cp |-> pal]
       ELSE [res |-> Dispatch(st, ToLower(parts[1]), Tail(parts), now,
                              randomColor),
             cp |-> [history |-> Append(pal.history, line),
                     histIdx |-> Len(pal.history) + 1]]

\* GetHistory keeping the cursor where a move would leave the history.
GetHistoryOp_NoClamp(pal, direction) ==
    IF Len(pal.history) = 0 THEN [cp |-> pal, out |-> <<>>]
    ELSE LET i == pal.histIdx + direction
         IN IF i < 0 \/ i >= Len(pal.history)
            THEN [cp |-> [pal EXCEPT !.histIdx = i], out |-> <<>>]
            ELSE [cp |-> [pal EXCEPT !.histIdx = i],
                  out |-> pal.history[i + 1]]

\* CommandPalette.GetHistory: the line returned (<<>> is the empty string)
\* and the palette afterwards; histIdx counts from 0 as in the code.
GetHistoryOp(pal, direction) ==
    IF Len(pal.history) = 0 THEN [cp |-> pal, out |-> <<>>]
    ELSE LET i == pal.histIdx + direction
             j == IF i < 0 THEN 0 ELSE i
         IN IF j >= Len(pal.history)
            THEN [cp |-> [pal EXCEPT !.histIdx = Len(pal.history)],
                  out |-> <<>>]
            ELSE [cp |-> [pal EXCEPT !.histIdx = j],
                  out |-> pal.history[j + 1]]

\* The dashboard has stopped: the last command was a quit command.
Stopped == last.op = "Execute" /\ last.res.Quit

\* The Execute call the moves of the cursor so far follow (<<>> before the
\* first), and the number of GetHistory(-1) calls in a row since it.
AfterInput ==
    CASE last.op = "Execute" -> last.input
      [] last.op = "GetHistory" -> last.after
      [] OTHER -> <<>>
Back == IF last.op = "GetHistory" THEN last.back ELSE 0

\* The Enter key in the command input: Execute(input) for a non-empty input.
Execute(input, now, randomColor) ==
    LET r == ExecuteOp(s, cp, input, now, randomColor)
    IN /\ calls < MaxCalls
       /\ ~Stopped
       /\ input # <<>>
       /\ calls' = calls + 1
       /\ s' = r.res.st
       /\ dataFile' = IF r.res.saved THEN save(r.res.st) ELSE dataFile
       /\ cp' = r.cp
       /\ last' = [op |-> "Execute", err |-> r.res.Message, tx |-> NoTx,
                   input |-> input,
                   res |-> [Success |-> r.res.Success, Quit |-> r.res.Quit,
                            IsHelp |-> r.res.IsHelp]]
       /\ UNCHANGED <<dash, other>>

\* The Up and Down keys in the command input: GetHistory(-1), GetHistory(1).
GetHistory(direction) ==
    LET r == GetHistoryOp(cp, direction)
    IN /\ ~Stopped
       /\ Back <= Len(cp.history)
       /\ cp' = r.cp
       /\ last' = [op |-> "GetHistory", err |-> ErrNone, tx |-> NoTx,
                   direction |-> direction, out |-> r.out,
                   after |-> AfterInput,
                   back |-> IF direction < 0 /\ (last.op = "Execute" \/ Back > 0)
                            THEN Back + 1 ELSE 0]
       /\ UNCHANGED <<s, dataFile, calls, dash, other>>

\* The lines typed in the model: a white-space line, an unknown command, a
\* quit command, commands that succeed or that the store refuses (one with
\* surrounding and doubled blanks) and a command with too few words.
ExecLines ==
    {<<Blank, Blank>>,
     <<"foo">>,
     <<"Q">>,
     <<Blank, "ADD", Blank, Blank, "Wallet", Blank, "w2", Blank, "addr",
       Blank, "eth-hot", Blank>>,
     <<"dep", Blank, "w1", Blank, "1", Blank, "a">>,
     <<"del", Blank, "wallet">>}

NextExecute ==
    \/ \E input \in ExecLines, randomColor \in Colors :
          Execute(input, 1, randomColor)
    \/ \E direction \in {0 - 1, 1} : GetHistory(direction)

SpecExecute == Init /\ [][NextExecute]_vars

\* C23: the history is append-only whatever the outcome: an Execute of a
\* line that is not blank appends the trimmed line, whether the command
\* succeeds, fails, is unknown or quits; an Execute of a blank line appends
\* nothing; no step removes or changes an entry.
C23_HistoryAppendOnly ==
    [][/\ Len(cp'.history) >= Len(cp.history)
       /\ SubSeq(cp'.history, 1, Len(cp.history)) = cp.history
       /\ calls' = calls => cp'.history = cp.history
       /\ calls' # calls
            => /\ last'.op = "Execute"
               /\ cp'.history =
                    IF TrimSpace(last'.input) = <<>> THEN cp.history
                    ELSE Append(cp.history, TrimSpace(last'.input))]_vars

\* C23 witness: an unknown command, a command that succeeded and was typed
\* with surrounding blanks, and a quit command are in the history in the
\* order they were typed.
C23_Witness ==
    /\ Len(cp.history) = 3
    /\ cp.history[1] = <<"foo">>
    /\ cp.history[2] = <<"ADD", Blank, Blank, "Wallet", Blank, "w2", Blank,
                         "addr", Blank, "eth-hot">>
    /\ HasWallet(s, "w2")
    /\ cp.history[3] = <<"Q">>
    /\ Stopped

\* The larger of two integers.
Max(a, b) == IF a >= b THEN a ELSE b

\* The line the k-th GetHistory(-1) in a row shows: the k-th most recent
\* one, the oldest one once it is reached.
KthMostRecent(k) == cp.history[Max(Len(cp.history) - k + 1, 1)]

\* C24 as stated: the k-th GetHistory(-1) in a row after any Execute
\* returns the k-th most recent line.
C24_Original ==
    (last.op = "GetHistory" /\ last.back > 0 /\ Len(cp.history) > 0)
        => last.out = KthMostRecent(last.back)

\* C24: with a non-empty history the cursor is within 0..len(history);
\* after an Execute of a line that is not blank the k-th GetHistory(-1) in
\* a row returns the k-th most recent line, the oldest once it is reached;
\* GetHistory(+1) from the newest line or past it returns the empty string,
\* and so does the next one; with an empty history GetHistory returns the
\* empty string.
C24_HistoryCursor ==
    /\ Len(cp.history) > 0 => cp.histIdx \in 0..Len(cp.history)
    /\ (last.op = "GetHistory" /\ last.back > 0
            /\ TrimSpace(last.after) # <<>>)
          => last.out = KthMostRecent(last.back)
    /\ (Len(cp.history) > 0 /\ cp.histIdx >= Len(cp.history) - 1)
          => LET r == GetHistoryOp(cp, 1)
             IN /\ r.out = <<>>
                /\ r.cp.histIdx = Len(cp.history)
                /\ GetHistoryOp(r.cp, 1).out = <<>>
    /\ (last.op = "GetHistory" /\ Len(cp.history) = 0) => last.out = <<>>

\* C24 witness: the third GetHistory(-1) in a row after an Execute, with
\* two lines in the history: the cursor stays on the oldest line.
C24_Witness ==
    /\ last.op = "GetHistory" /\ last.back = 3
    /\ TrimSpace(last.after) # <<>>
    /\ Len(cp.history) = 2
    /\ cp.histIdx = 0
    /\ last.out = cp.history[1]

\* The words of a line with one blank between them.
Spaced(words) ==
    [i \in 1..(2 * Len(words) - 1) |->
        IF i % 2 = 1 THEN words[(i + 1) \div 2] ELSE Blank]

\* The commands with the words that complete them and the number of words
\* after the command word that Execute needs to go on.
CommandTable ==
    {[aliases |-> {"add", "a"}, args |-> <<sub, "w2", "addr", "eth-hot">>,
      min |-> 4] : sub \in {"wallet", "w"}}
    \cup {[aliases |-> {"add", "a"}, args |-> <<sub, "c2">>, min |-> 2]
            : sub \in {"category", "cat", "c"}}
    \cup {[aliases |-> {"add", "a"}, args |-> <<sub, "k2", "addr2">>,
           min |-> 3] : sub \in {"contact", "con"}}
    \cup {[aliases |-> {"del", "d", "delete", "rm"}, args |-> <<sub, "w1">>,
           min |-> 2] : sub \in {"wallet", "tx"}}
    \cup {[aliases |-> {"deposit", "dep"}, args |-> <<"w1", "1", "a">>,
           min |-> 3],
          [aliases |-> {"withdraw", "wd"}, args |-> <<"w1", "1", "a">>,
           min |-> 3],
          [aliases |-> {"transfer", "tf"},
           args |-> <<"w1", "w2", "1", "a">>, min |-> 4],
          [aliases |-> {"swap", "sw"},
           args |-> <<"w1", "1", "a", "1", "b">>, min |-> 5],
          [aliases |-> {"balance", "bal", "b"},
           args |-> <<"w1", "1", "a">>, min |-> 3],
          [aliases |-> {"price", "p"}, args |-> <<"a", "2">>, min |-> 2]}

\* The full names of the commands.
CommandNames ==
    {"add", "del", "deposit", "withdraw", "transfer", "swap", "balance",
     "price"}

\* The lines with fewer words than the command needs: under every alias
\* the lines one word short, under the command's full name the shorter ones.
ShortLines ==
    UNION {{Spaced(<<alias>> \o SubSeq(c.args, 1, c.min - 1))
                : alias \in c.aliases}
            \cup {Spaced(<<alias>> \o SubSeq(c.args, 1, k))
                : alias \in c.aliases \cap CommandNames, k \in 0..(c.min - 1)}
            : c \in CommandTable}

\* Lines whose first word is not a command, with the words of a command
\* after it.
UnknownLines ==
    {Spaced(<<word>> \o args)
        : word \in {"foo", "wallet"},
          args \in {<<"w1", "1", "a">>, <<"wallet", "w1">>,
                    <<"wallet", "w2", "addr", "eth-hot">>}}

\* C25: Execute of a line whose first word is not a command, or that has
\* fewer words than the command needs, returns Success false, leaves the
\* ledger in memory as it was and saves nothing.
C25_ParseFailureChangesNothing ==
    \A input \in ShortLines \cup UnknownLines :
        LET r == ExecuteOp(s, cp, input, 1, "red")
        IN /\ ~r.res.Success
           /\ r.res.st = s
           /\ ~r.res.saved

\* C25 witness: `del wallet` was typed while wallet w1 exists; the command
\* failed and the wallet is in memory and in the data file.
C25_Witness ==
    /\ last.op = "Execute" /\ last.input = <<"del", Blank, "wallet">>
    /\ ~last.res.Success
    /\ calls >= 2
    /\ HasWallet(s, "w1")
    /\ dataFile = s.data

\* ------------------------------------------------ balances as delta sums
\* The transactions of the delta-sum specification: non-empty ids, both
\* wallets, both coins, a transfer to a wallet and one to an outside
\* address, a swap.
SumIDs == {"t1", "t2"}
SumTxs ==
    {Tx(id, TxTypeDeposit, "", to, "A", a, "", "", 0, "", 0) :
        id \in SumIDs, to \in WalletNames, a \in Amounts}
    \cup {Tx(id, TxTypeWithdraw, "w1", "", c, 1, "", "", 0, "", 0) :
            id \in SumIDs, c \in Coins}
    \cup {Tx(id, TxTypeTransfer, "w1", to, "A", 2, "", "", 0, "", 0) :
            id \in SumIDs, to \in {"w2", "w1", ""}}
    \cup {Tx(id, TxTypeSwap, "", "", "", 0, "w1", "A", 1, bc, 2) :
            id \in SumIDs, bc \in Coins}

\* Every wallet the transaction names exists.
NamesExist(st, tx) ==
    \A n \in {tx.FromWallet, tx.ToWallet, tx.SwapWallet} \ {""} :
        HasWallet(st, n)

NextSum ==
    \/ \E n \in WalletNames : AddWallet(n, "")
    \/ \E tx \in SumTxs : NamesExist(s, tx) /\ AddTransaction(tx)
    \/ \E id \in SumIDs : DeleteTransaction(id)

SpecSum == Init /\ [][NextSum]_vars

\* The signed amount a transaction applies to coin c of wallet w.
Delta(tx, w, c) ==
    CASE tx.Type = TxTypeDeposit ->
            IF tx.ToWallet = w /\ tx.Coin = c THEN tx.Amount ELSE 0
      [] tx.Type = TxTypeWithdraw ->
            IF tx.FromWallet = w /\ tx.Coin = c THEN 0 - tx.Amount ELSE 0
      [] tx.Type = TxTypeTransfer ->
            (IF tx.FromWallet = w /\ tx.Coin = c THEN 0 - tx.Amount ELSE 0)
            + (IF tx.ToWallet = w /\ tx.Coin = c THEN tx.Amount ELSE 0)
      [] tx.Type = TxTypeSwap ->
            (IF tx.SwapWallet = w /\ tx.SellCoin = c
             THEN 0 - tx.SellAmount ELSE 0)
            + (IF tx.SwapWallet = w /\ tx.BuyCoin = c
               THEN tx.BuyAmount ELSE 0)
      [] OTHER -> 0

\* The sum of the deltas of the stored transactions with the ids given.
RECURSIVE DeltaSum(_, _, _)
DeltaSum(ids, w, c) ==
    IF ids = {} THEN 0
    ELSE LET id == CHOOSE x \in ids : TRUE
         IN Delta(s.data.Transactions[id], w, c)
              + DeltaSum(ids \ {id}, w, c)

\* C28: from a ledger without balances and transactions, after any
\* sequence of AddWallet, AddTransaction (non-empty ids, the wallets it
\* names existing) and DeleteTransaction, the balance of every coin in
\* every wallet, an absent entry counting as 0, is the sum of the deltas
\* of the transactions in the transaction map.
C28_BalancesAreDeltaSums ==
    \A w \in DOMAIN s.data.Wallets :
        /\ EntryCoins(W(s, w).Balances) \subseteq Coins
        /\ \A c \in Coins :
              Bal(W(s, w).Balances, c)
                = DeltaSum(DOMAIN s.data.Transactions, w, c)

\* C28 witness: two transactions were added and one of them deleted; the
\* remaining one gives wallet w1 a non-zero balance.
C28_Witness ==
    /\ last.op = "DeleteTransaction" /\ last.err = ErrNone
    /\ calls = 3
    /\ Cardinality(DOMAIN s.data.Transactions) = 1
    /\ HasWallet(s, "w1")
    /\ \E c \in Coins : Bal(W(s, "w1").Balances, c) # 0

\* ------------------------------------------------- dashboard, month view
\* A string of the dashboard as the sequence of its bytes.
Digit(d) == 48 + d
Hyphen == 45

\* fmt.Sprintf("%d", n) for n >= 0.
RECURSIVE Digits(_)
Digits(n) == IF n < 10 THEN <<Digit(n)>>
             ELSE Digits(n \div 10) \o <<Digit(n % 10)>>

\* The month written without the leading zero.
Pad2_Unpadded(n) == Digits(n)

\* fmt.Sprintf("%02d", n) for 0 <= n < 100.
Pad2(n) == IF n < 10 THEN <<Digit(0)>> \o Digits(n) ELSE Digits(n)

\* The key groupTransactionsByMonth files a transaction under.
MonthKey(tx) == Digits(tx.Date.year) \o <<Hyphen>> \o Pad2(tx.Date.month)

\* a < b for Go strings: byte by byte, a proper prefix first.
RECURSIVE StrLess(_, _)
StrLess(a, b) ==
    IF b = <<>> THEN FALSE
    ELSE IF a = <<>> THEN TRUE
    ELSE IF Head(a) # Head(b) THEN Head(a) < Head(b)
    ELSE StrLess(Tail(a), Tail(b))

\* groupTransactionsByMonth: under each key the transactions with that
\* key, in the order of the list.
groupTransactionsByMonth(txs) ==
    [key \in {MonthKey(txs[i]) : i \in 1..Len(txs)} |->
        SelectSeq(txs, LAMBDA tx : MonthKey(tx) = key)]

\* sort.Sort(sort.Reverse(sort.StringSlice(keys)))
RECURSIVE SortDescending(_)
SortDescending(keys) ==
    IF keys = {} THEN <<>>
    ELSE LET top == CHOOSE k \in keys :
                        \A j \in keys : j = k \/ StrLess(j, k)
         IN <<top>> \o SortDescending(keys \ {top})

\* getSortedMonthKeys
getSortedMonthKeys(txsByMonth) == SortDescending(DOMAIN txsByMonth)

\* The dates time.Now() gives the transactions of the model: the three
\* days of January and February 2025, a day in October and the last day
\* of the year before.
Date(y, m, d) == [year |-> y, month |-> m, day |-> d]
TxDates ==
    {Date(2025, 1, 5), Date(2025, 1, 31), Date(2025, 2, 1),
     Date(2025, 10, 1), Date(2024, 12, 31)}

\* The month view before the first transaction.
NoMonths == [txs |-> <<>>, txsByMonth |-> <<>>, Months |-> <<>>,
             built |-> FALSE]

InitMonths ==
    /\ s = New(NoFile)
    /\ dataFile = NoFile
    /\ last = [op |-> "New", err |-> ErrNone, tx |-> NoTx]
    /\ calls = 0
    /\ cp = NewCommandPalette
    /\ other = NoInstance
    /\ dash = NoMonths

\* A command records a transaction dated date; the handler of the command
\* input then clears the month list of the statistics view.
RecordTx(date) ==
    /\ calls < MaxCalls
    /\ calls' = calls + 1
    /\ dash' = [txs |-> Append(dash.txs,
                               [ID |-> GenerateTxID(calls + 1),
                                Date |-> date]),
                txsByMonth |-> <<>>, Months |-> <<>>, built |-> FALSE]
    /\ last' = [op |-> "RecordTx", err |-> ErrNone, tx |-> NoTx]
    /\ UNCHANGED <<s, dataFile, cp, other>>

\* buildStatsDashboard with an empty month list: the transactions are
\* grouped and the keys sorted.
buildStatsDashboard ==
    /\ ~dash.built
    /\ dash' = [txs |-> dash.txs,
                txsByMonth |-> groupTransactionsByMonth(dash.txs),
                Months |->
                    getSortedMonthKeys(groupTransactionsByMonth(dash.txs)),
                built |-> TRUE]
    /\ last' = [op |-> "buildStatsDashboard", err |-> ErrNone, tx |-> NoTx]
    /\ UNCHANGED <<s, dataFile, calls, cp, other>>

NextMonths ==
    \/ \E date \in TxDates : RecordTx(date)
    \/ buildStatsDashboard

SpecMonths == InitMonths /\ [][NextMonths]_vars

\* The buckets that hold transaction tx.
BucketsOf(tx) ==
    {key \in DOMAIN dash.txsByMonth :
        \E i \in 1..Len(dash.txsByMonth[key]) : dash.txsByMonth[key][i] = tx}

\* The month of a date counted from year 0.
MonthNumber(date) == date.year * 12 + date.month

\* The key "2025-02" and the key "2025-01".
Key_2025_02 == <<50, 48, 50, 53, 45, 48, 50>>
Key_2025_01 == <<50, 48, 50, 53, 45, 48, 49>>

\* C26: grouping by month is a partition and the keys come newest first:
\* every transaction is in exactly one bucket, two transactions share a
\* bucket exactly when their dates have the same year and month, no bucket
\* is empty, every key is in the sorted list once and the key of a later
\* month comes before the key of an earlier one; the dates 2025-01-05,
\* 2025-01-31 and 2025-02-01 give the keys 2025-02, 2025-01 with 1 and 2
\* transactions.
C26_MonthGrouping ==
    dash.built =>
        /\ \A i \in 1..Len(dash.txs) :
              Cardinality(BucketsOf(dash.txs[i])) = 1
        /\ \A i, j \in 1..Len(dash.txs) :
              (BucketsOf(dash.txs[i]) = BucketsOf(dash.txs[j]))
                <=> (MonthNumber(dash.txs[i].Date)
                        = MonthNumber(dash.txs[j].Date))
        /\ \A key \in DOMAIN dash.txsByMonth :
              /\ Len(dash.txsByMonth[key]) > 0
              /\ Cardinality({i \in 1..Len(dash.Months) :
                                 dash.Months[i] = key}) = 1
        /\ \A i \in 1..Len(dash.Months) :
              dash.Months[i] \in DOMAIN dash.txsByMonth
        /\ \A i, j \in 1..Len(dash.Months) :
              i < j => MonthNumber(dash.txsByMonth[dash.Months[i]][1].Date)
                         > MonthNumber(dash.txsByMonth[dash.Months[j]][1].Date)
        /\ {dash.txs[i].Date : i \in 1..Len(dash.txs)}
              = {Date(2025, 1, 5), Date(2025, 1, 31), Date(2025, 2, 1)}
            /\ Len(dash.txs) = 3
            => /\ dash.Months = <<Key_2025_02, Key_2025_01>>
               /\ Len(dash.txsByMonth[Key_2025_02]) = 1
               /\ Len(dash.txsByMonth[Key_2025_01]) = 2

\* C26 witness: the statistics view was built for three transactions of
\* three months, October 2025, February 2025 and December 2024, recorded
\* in another order.
C26_Witness ==
    /\ dash.built
    /\ Len(dash.txs) = 3
    /\ dash.txs[1].Date = Date(2025, 2, 1)
    /\ dash.txs[2].Date = Date(2024, 12, 31)
    /\ dash.txs[3].Date = Date(2025, 10, 1)
    /\ Len(dash.Months) = 3
    /\ dash.Months[2] = Key_2025_02

\* -------------------------------------------------- dashboard, flow graph
\* The addresses of the model and what `a[:6] + "..." + a[len(a)-4:]`
\* makes of the ones longer than 10 bytes.
LongAddress == "0xAAAA1111BBBB"
Abbreviate(address) ==
    CASE address = LongAddress -> "0xAAAA...BBBB"
      [] OTHER -> address

\* model.Tx with the fields createFlowCanvas reads.
FlowTx(typ, from, to, coin, amount, fromAddress, toAddress) ==
    [Type |-> typ, FromWallet |-> from, ToWallet |-> to, Coin |-> coin,
     Amount |-> amount, FromAddress |-> fromAddress,
     ToAddress |-> toAddress, Date |-> 0]

\* The two ends of the edge of a deposit, a withdrawal or a transfer.
EdgeFrom(tx) ==
    CASE tx.Type = TxTypeDeposit -> "External"
      [] tx.Type = TxTypeTransfer /\ tx.FromWallet = ""
            /\ tx.FromAddress # "" -> Abbreviate(tx.FromAddress)
      [] OTHER -> tx.FromWallet
EdgeTo(tx) ==
    CASE tx.Type = TxTypeWithdraw -> "External"
      [] tx.Type = TxTypeTransfer /\ tx.ToWallet = ""
            /\ tx.ToAddress # "" -> Abbreviate(tx.ToAddress)
      [] OTHER -> tx.ToWallet

\* edgeKey: fmt.Sprintf("%s|%s|%s|%s", from, to, coin, txType)
edgeKey(from, to, coin, txType) ==
    from \o "|" \o to \o "|" \o coin \o "|" \o txType

\* One round of the loop of createFlowCanvas for a transaction that is not
\* a swap: the edge under the transaction's key is created or grows.
AddToEdges(edges, tx) ==
    LET key == edgeKey(EdgeFrom(tx), EdgeTo(tx), tx.Coin, tx.Type)
    IN IF key \in DOMAIN edges
       THEN [edges EXCEPT ![key] =
                [@ EXCEPT !.Amount = @ + tx.Amount,
                          !.Count = @ + 1,
                          !.Dates = Append(@, tx.Date)]]
       ELSE MapPut(edges, key,
                   [From |-> EdgeFrom(tx), To |-> EdgeTo(tx),
                    Coin |-> tx.Coin, Amount |-> tx.Amount, Count |-> 1,
                    Dates |-> <<tx.Date>>, TxType |-> tx.Type])

\* The edges createFlowCanvas has after the first n transactions.
RECURSIVE FlowEdges(_, _)
FlowEdges(txs, n) ==
    IF n = 0 THEN <<>>
    ELSE IF txs[n].Type = TxTypeSwap THEN FlowEdges(txs, n - 1)
    ELSE AddToEdges(FlowEdges(txs, n - 1), txs[n])

\* The swaps createFlowCanvas keeps apart, one entry per transaction.
FlowSwaps(txs) == SelectSeq(txs, LAMBDA tx : tx.Type = TxTypeSwap)

\* The transactions of a month in the model: the two deposits of 10 and 15
\* SOL into W, deposits into wallets and of coins whose names have a
\* vertical bar in them, a withdrawal, transfers to a wallet and to an
\* outside address, a swap.
FlowTxs ==
    {FlowTx(TxTypeDeposit, "", "W", "SOL", a, "", "") : a \in {10, 15}}
    \cup {FlowTx(TxTypeDeposit, "", "w", "X|Y", 1, "", ""),
          FlowTx(TxTypeDeposit, "", "w|X", "Y", 2, "", ""),
          FlowTx(TxTypeWithdraw, "W", "", "SOL", 10, "", ""),
          FlowTx(TxTypeTransfer, "W", "w", "SOL", 1, "", ""),
          FlowTx(TxTypeTransfer, "W", "", "SOL", 2, "", LongAddress),
          FlowTx(TxTypeTransfer, "W", "", "SOL", 3, "", "addr1"),
          FlowTx("swap", "", "", "", 0, "", "")}

\* The flow view before the first transaction.
NoFlow == [txs |-> <<>>, edges |-> <<>>, swaps |-> <<>>, built |-> FALSE]

InitFlow ==
    /\ s = New(NoFile)
    /\ dataFile = NoFile
    /\ last = [op |-> "New", err |-> ErrNone, tx |-> NoTx]
    /\ calls = 0
    /\ cp = NewCommandPalette
    /\ other = NoInstance
    /\ dash = NoFlow

\* A command records a transaction, dated by the clock.
RecordFlowTx(tx) ==
    /\ calls < MaxCalls
    /\ calls' = calls + 1
    /\ dash' = [txs |-> Append(dash.txs, [tx EXCEPT !.Date = calls + 1]),
                edges |-> <<>>, swaps |-> <<>>, built |-> FALSE]
    /\ last' = [op |-> "RecordFlowTx", err |-> ErrNone, tx |-> NoTx]
    /\ UNCHANGED <<s, dataFile, cp, other>>

\* createFlowCanvas for the transactions of the month.
createFlowCanvas ==
    /\ ~dash.built
    /\ dash' = [txs |-> dash.txs,
                edges |-> FlowEdges(dash.txs, Len(dash.txs)),
                swaps |-> FlowSwaps(dash.txs),
                built |-> TRUE]
    /\ last' = [op |-> "createFlowCanvas", err |-> ErrNone, tx |-> NoTx]
    /\ UNCHANGED <<s, dataFile, calls, cp, other>>

NextFlow ==
    \/ \E tx \in FlowTxs : RecordFlowTx(tx)
    \/ createFlowCanvas

SpecFlow == InitFlow /\ [][NextFlow]_vars

\* The positions of the transactions that are not swaps, and of those
\* with the ends, coin and type t.
NonSwap == {i \in 1..Len(dash.txs) : dash.txs[i].Type # TxTypeSwap}
EdgeTuple(tx) == <<EdgeFrom(tx), EdgeTo(tx), tx.Coin, tx.Type>>
WithTuple(t) == {i \in NonSwap : EdgeTuple(dash.txs[i]) = t}

\* The sum of f over a finite set of positions.
RECURSIVE SumAt(_, _)
SumAt(f, idx) ==
    IF idx = {} THEN 0
    ELSE LET i == CHOOSE x \in idx : TRUE
         IN f[i] + SumAt(f, idx \ {i})

\* C27: the flow graph has exactly one edge for every distinct (from, to,
\* coin, type) among the deposits, withdrawals and transfers of the list;
\* its amount is the sum of their amounts, its count their number, its
\* date list has one date for each, and the counts of all edges add up to
\* the number of transactions that are not swaps.
C27_FlowEdgesMerge ==
    dash.built =>
        /\ \A i \in NonSwap :
              LET t == EdgeTuple(dash.txs[i])
                  es == {k \in DOMAIN dash.edges :
                            <<dash.edges[k].From, dash.edges[k].To,
                              dash.edges[k].Coin, dash.edges[k].TxType>> = t}
              IN /\ Cardinality(es) = 1
                 /\ \A k \in es :
                      /\ dash.edges[k].Amount
                           = SumAt([j \in WithTuple(t) |->
                                        dash.txs[j].Amount], WithTuple(t))
                      /\ dash.edges[k].Count = Cardinality(WithTuple(t))
                      /\ Len(dash.edges[k].Dates) = Cardinality(WithTuple(t))
        /\ Cardinality(DOMAIN dash.edges)
             = Cardinality({EdgeTuple(dash.txs[i]) : i \in NonSwap})
        /\ SumAt([k \in DOMAIN dash.edges |-> dash.edges[k].Count],
                 DOMAIN dash.edges) = Cardinality(NonSwap)

\* ------------------------------------------------ deduplication index
\* C40: the ids marked in txIndex are the keys of the transaction map, and
\* AddTransaction lets an id pass its duplicate check exactly when no
\* transaction is stored under that id.
C40_IndexMirrorsMap ==
    /\ s.txIndex = DOMAIN s.data.Transactions
    /\ \A tx \in CallTxs :
          (AddTransactionOp(s, tx).err # ErrDuplicate)
            <=> (tx.ID \notin DOMAIN s.data.Transactions)

\* ------------------------------------------------------------------ fees
\* The fee coin `tx add` stores: the one given, else the coin of the
\* transaction (the sell coin of a swap) when a fee is set.
feeCoinOf(txFee, txFeeCoin, txCoin, txSellCoin) ==
    IF txFee > 0 /\ txFeeCoin = ""
    THEN IF txCoin # "" THEN txCoin
         ELSE IF txSellCoin # "" THEN txSellCoin ELSE txFeeCoin
    ELSE txFeeCoin

\* model.Tx with its fee, fee coin, note and date as well.
WithFee(tx, fee, feeCoin, note, date) ==
    tx @@ [Fee |-> fee, FeeCoin |-> feeCoin, Note |-> note, Date |-> date]

\* The transaction without fee and note.
Plain(tx) == WithFee(tx, 0, "", "", 1)

\* The fees, fee coins, notes and dates a transaction comes with.
FeeVariants(tx) ==
    {WithFee(tx, fee, feeCoinOf(fee, feeCoin, tx.Coin, tx.SellCoin),
             nd[1], nd[2]) :
        fee \in {0, 1}, feeCoin \in {"", "B"},
        nd \in {<<"", 1>>, <<"gas", 2>>}}

\* The transactions of the fee specification: the ones of the delta-sum
\* specification under the id t1, with every fee variant.
FeeBase == {tx \in SumTxs : tx.ID = "t1"}
FeeTxs == UNION {FeeVariants(tx) : tx \in FeeBase}

NextFee ==
    \/ \E n \in WalletNames : AddWallet(n, "")
    \/ \E tx \in FeeTxs : AddTransaction(tx)
    \/ DeleteTransaction("t1")

SpecFee == Init /\ [][NextFee]_vars

\* C38: fee, fee coin, note and date have no effect on balances: a
\* transaction with any of them is accepted or refused like the one
\* without, leaves the same wallets behind when it is added and the same
\* wallets when it is then deleted; the stored record keeps them.
C38_FeesNeverTouchBalances ==
    \A tx \in FeeBase : \A v \in FeeVariants(tx) :
        LET a == AddTransactionOp(s, v)
            b == AddTransactionOp(s, Plain(tx))
        IN /\ a.err = b.err
           /\ a.st.data.Wallets = b.st.data.Wallets
           /\ a.err = ErrNone
                => /\ a.st.data.Transactions[tx.ID] = v
                   /\ DeleteTransactionOp(a.st, tx.ID).st.data.Wallets
                        = DeleteTransactionOp(b.st, tx.ID).st.data.Wallets

\* C38 witness: a deposit of 1 A with a fee of 1, the fee coin defaulted
\* to A, is stored and wallet w1 holds exactly the amount.
C38_Witness ==
    /\ last.op = "AddTransaction" /\ last.err = ErrNone
    /\ "t1" \in DOMAIN s.data.Transactions
    /\ s.data.Transactions["t1"].Type = TxTypeDeposit
    /\ s.data.Transactions["t1"].ToWallet = "w1"
    /\ s.data.Transactions["t1"].Fee = 1
    /\ s.data.Transactions["t1"].FeeCoin = "A"
    /\ s.data.Transactions["t1"].Amount = 1
    /\ Bal(W(s, "w1").Balances, "A") = 1

\* ------------------------------------------- balance-set, then a deposit
\* The positions of the balance entries whose symbol equals the coin under
\* case folding.
FoldEntries(balances, coin) ==
    {i \in 1..Len(balances) : EqualFold(balances[i].Coin, coin)}

\* C37: after `balance W a COIN` has succeeded and then `deposit W d COIN`
\* has succeeded, W has exactly one balance entry whose symbol equals COIN
\* ignoring letter case, and its amount is a + d.
C37_BalanceThenDepositSameEntry ==
    \A w \in DOMAIN s.data.Wallets, coin \in CoinArgs, now \in ClockReadings :
        LET r1 == cmdBalanceOp(s, <<w, "1", coin>>)
            r2 == cmdDepositOp(r1.st, <<w, "2", coin>>, now)
            balances == W(r2.st, w).Balances
        IN (r1.err = ErrNone /\ r2.err = ErrNone)
              => /\ Cardinality(FoldEntries(balances, coin)) = 1
                 /\ \A i \in FoldEntries(balances, coin) :
                       balances[i].Amount = 1 + 2

\* ---------------------------------------------------- category references
\* `wago wallet add NAME --category C`: a new process opens the store,
\* creates the category when it is given and missing, and adds the wallet.
addWalletCmdOp(file, name, walletCategory, randomColor) ==
    LET st == New(file)
        s1 == IF walletCategory # ""
                 /\ walletCategory \notin DOMAIN st.data.Categories
              THEN AddCategoryOp(st, Category(walletCategory, randomColor)).st
              ELSE st
    IN AddWalletOp(s1, Wallet(name, walletCategory))

\* `wago wallet upd NAME --category C`: a new process opens the store,
\* gets the wallet, sets the category and calls UpdateWallet.
updateWalletCmdOp(file, name, walletCategory) ==
    LET st == New(file)
    IN IF ~HasWallet(st, name) THEN Ret(ErrNotFound, st)
       ELSE UpdateWalletOp(st, name,
                           [W(st, name) EXCEPT !.Category = walletCategory])

\* Every wallet's category is empty or a key of the category map.
CategoryRefsValid(st) ==
    \A n \in DOMAIN st.data.Wallets :
        W(st, n).Category \in DOMAIN st.data.Categories \cup {""}

\* The palette lines that add and delete wallets and categories.
CategoryLines ==
    {Spaced(<<"add", "wallet", "w3", "addr", "eth-hot", cat>>)
        : cat \in {"c1", "c9"}}
    \cup {Spaced(<<"add", "category", "c2">>),
          Spaced(<<"del", "category", "c1">>),
          Spaced(<<"del", "wallet", "w1">>)}

\* C36: in every ledger reached through the palette's add wallet, add
\* category, del category and del wallet and the commands `wallet add` and
\* `wallet upd`, each wallet's category is empty or names a category of
\* the category map.
C36_CategoryRefsValid ==
    /\ CategoryRefsValid(s)
    /\ \A input \in CategoryLines :
          CategoryRefsValid(ExecuteOp(s, cp, input, 1, "red").res.st)
    /\ \A n \in WalletNames \cup {"w3"}, cat \in {"", "c1", "c9"} :
          /\ CategoryRefsValid(addWalletCmdOp(dataFile, n, cat, "red").st)
          /\ CategoryRefsValid(updateWalletCmdOp(dataFile, n, cat).st)

\* ------------------------------------------------- add wallet, chain-type
\* A chain-type word as the sequence of its characters.
HyphenChar == "-"
Hot == <<"h", "o", "t">>

\* The index (from 0) of the first hyphen of the word, -1 without one.
IndexOfHyphen(t) ==
    IF \E i \in 1..Len(t) : t[i] = HyphenChar
    THEN (CHOOSE i \in 1..Len(t) :
            /\ t[i] = HyphenChar
            /\ \A j \in 1..(i - 1) : t[j] # HyphenChar) - 1
    ELSE 0 - 1

\* strings.LastIndex(chainType, "-")
LastIndexOfHyphen(t) ==
    IF \E i \in 1..Len(t) : t[i] = HyphenChar
    THEN (CHOOSE i \in 1..Len(t) :
            /\ t[i] = HyphenChar
            /\ \A j \in (i + 1)..Len(t) : t[j] # HyphenChar) - 1
    ELSE 0 - 1

\* strings.Join(words, " ")
RECURSIVE Join(_)
Join(words) ==
    IF Len(words) = 0 THEN ""
    ELSE IF Len(words) = 1 THEN words[1]
    ELSE words[1] \o " " \o Join(Tail(words))

\* The model.Wallet cmdAdd builds from the words after `add wallet`.
newWallet(subArgs) ==
    LET chainType == subArgs[3]
        idx == LastIndexOfHyphen(chainType)
    IN [Name |-> subArgs[1],
        Address |-> subArgs[2],
        Chain |-> IF idx > 0 THEN SubSeq(chainType, 1, idx) ELSE chainType,
        Type |-> IF idx > 0
                 THEN SubSeq(chainType, idx + 2, Len(chainType))
                 ELSE Hot,
        Category |-> IF Len(subArgs) > 3 THEN subArgs[4] ELSE "",
        Note |-> IF Len(subArgs) > 4
                 THEN Join(SubSeq(subArgs, 5, Len(subArgs))) ELSE ""]

\* The chain-type words typed in the model: every word of one to four
\* characters over a letter and the hyphen; and the words after it.
ChainTypeWords ==
    UNION {[1..n -> {"a", HyphenChar}] : n \in 1..4}
TrailingWords ==
    {<<>>, <<"c1">>, <<"c1", "my">>, <<"c1", "my", "cold", "one">>}

\* The palette before an `add wallet` line has been typed.
NoNewWallet == [subArgs |-> <<>>, wallet |-> <<>>, typed |-> FALSE]

InitChainType ==
    /\ s = New(NoFile)
    /\ dataFile = NoFile
    /\ last = [op |-> "New", err |-> ErrNone, tx |-> NoTx]
    /\ calls = 0
    /\ cp = NewCommandPalette
    /\ other = NoInstance
    /\ dash = NoNewWallet

\* `add wallet w3 addr CHAIN-TYPE ...` is typed: cmdAdd builds the wallet.
cmdAddWallet(chainType, trailing) ==
    LET subArgs == <<"w3", "addr", chainType>> \o trailing
    IN /\ calls < MaxCalls
       /\ calls' = calls + 1
       /\ dash' = [subArgs |-> subArgs, wallet |-> newWallet(subArgs),
                   typed |-> TRUE]
       /\ last' = [op |-> "cmdAdd", err |-> ErrNone, tx |-> NoTx]
       /\ UNCHANGED <<s, dataFile, cp, other>>

NextChainType ==
    \E chainType \in ChainTypeWords, trailing \in TrailingWords :
        cmdAddWallet(chainType, trailing)

SpecChainType == InitChainType /\ [][NextChainType]_vars

\* The characters of a word.
CharsOf(t) == {t[i] : i \in 1..Len(t)}

\* The note is the words after the category with one space between them.
NoteJoined ==
    LET words == dash.subArgs
        w == dash.wallet
    IN /\ Len(words) <= 4 => w.Note = ""
       /\ Len(words) = 5 => w.Note = words[5]
       /\ Len(words) = 7
            => w.Note = words[5] \o " " \o words[6] \o " " \o words[7]
       /\ w.Category = IF Len(words) > 3 THEN words[4] ELSE ""

\* C34 as stated: a chain-type word with a hyphen is split at its last
\* hyphen, whatever the place of the hyphen.
C34_Original ==
    (dash.typed /\ HyphenChar \in CharsOf(dash.subArgs[3]))
        => /\ dash.wallet.Chain \o <<HyphenChar>> \o dash.wallet.Type
                = dash.subArgs[3]
           /\ HyphenChar \notin CharsOf(dash.wallet.Type)

\* C34: a chain-type word with a hyphen after its first character is split
\* at its last hyphen into chain and type; a word without a hyphen, or
\* whose only hyphen is its first character, is the chain and the type is
\* hot; the words after the category are joined with single spaces into
\* the note.
C34_ChainTypeSplit ==
    dash.typed =>
        LET t == dash.subArgs[3]
            w == dash.wallet
        IN /\ HyphenChar \in CharsOf(Tail(t))
                => /\ w.Chain \o <<HyphenChar>> \o w.Type = t
                   /\ HyphenChar \notin CharsOf(w.Type)
           /\ HyphenChar \notin CharsOf(Tail(t))
                => /\ w.Chain = t
                   /\ w.Type = Hot
           /\ NoteJoined

\* C34 witness: a word with two hyphens was typed, followed by a category
\* and a note of three words.
C34_Witness ==
    /\ dash.typed
    /\ dash.subArgs[3] = <<"a", HyphenChar, "a", HyphenChar>>
    /\ dash.wallet.Chain = <<"a", HyphenChar, "a">>
    /\ dash.wallet.Type = <<>>
    /\ dash.wallet.Note = "my cold one"

\* ------------------------------------------------------------- dashboard
\* The two views of the dashboard.
ViewMain == "main"
ViewStats == "stats"

\* t.After(u) for two dates.
DayNumber(date) == MonthNumber(date) * 31 + date.day
After(t, u) == DayNumber(t) > DayNumber(u)

\* sort.Slice(txs, Date.After): the transactions newest first.
RECURSIVE SortNewestFirst(_)
SortNewestFirst(txs) ==
    IF txs = {} THEN <<>>
    ELSE LET top == CHOOSE t \in txs : \A u \in txs : ~After(u.Date, t.Date)
         IN <<top>> \o SortNewestFirst(txs \ {top})

\* collectAllTransactions: the stored transactions, newest first.
collectAllTransactions(st) ==
    SortNewestFirst({st.data.Transactions[id] :
                        id \in DOMAIN st.data.Transactions})

\* One use of a cursor as an index: list[i] with len(list) = n.
IndexAt(list, i, n) == [list |-> list, i |-> i, n |-> n]

\* buildMainDashboard drawing the wallet under a cursor it does not
\* bring back into the list.
buildMainDashboardOp_NoClamp(d) ==
    LET n == Cardinality(DOMAIN d.s.data.Wallets)
    IN IF n > 0
       THEN [d EXCEPT !.idx = @ \cup {IndexAt("wallets", d.SelectedWallet, n)}]
       ELSE d

\* buildMainDashboard: the cursor is set to 0 when it is past the end of
\* the wallet list, then the wallet under it is drawn.  The order of the
\* list plays no part in the range of the cursor and is left out.
buildMainDashboardOp(d) ==
    LET n == Cardinality(DOMAIN d.s.data.Wallets)
        sel == IF d.SelectedWallet >= n THEN 0 ELSE d.SelectedWallet
    IN IF n > 0
       THEN [d EXCEPT !.SelectedWallet = sel,
                      !.idx = @ \cup {IndexAt("wallets", sel, n)}]
       ELSE [d EXCEPT !.SelectedWallet = sel]

\* buildStatsDashboard of the dashboard: the month list is computed when
\* it is empty or the cursor is not below the number of months in the
\* ledger; the month under the cursor is drawn when there is one.
buildStatsDashboardOp(d) ==
    LET txsByMonth == groupTransactionsByMonth(collectAllTransactions(d.s))
        fresh == Len(d.Months) = 0
                   \/ d.CurrentMonth >= Cardinality(DOMAIN txsByMonth)
        months == IF fresh THEN getSortedMonthKeys(txsByMonth) ELSE d.Months
        cur == IF fresh THEN 0 ELSE d.CurrentMonth
    IN [d EXCEPT !.Months = months,
                 !.CurrentMonth = cur,
                 !.idx = IF Len(months) > 0 /\ cur < Len(months)
                         THEN @ \cup {IndexAt("Months", cur, Len(months))}
                         ELSE @]

\* buildDashboard: the store is read again from the data file into the
\* variable s of showDashboard; without wallets a message is shown, else
\* the current view is built.
buildDashboardOp(d, file) ==
    LET d1 == [d EXCEPT !.s = New(file)]
    IN IF DOMAIN d1.s.data.Wallets = {} THEN d1
       ELSE IF d1.currentView = ViewStats THEN buildStatsDashboardOp(d1)
       ELSE buildMainDashboardOp(d1)

\* buildFullUI: the dashboard above the bottom bar.
buildFullUI(d, file) == buildDashboardOp(d, file)

\* The dashboard state a handler starts from: no index made yet.
Handling == [dash EXCEPT !.idx = {}]

\* showDashboard up to the first drawing: the main view, both cursors 0,
\* the store opened once and handed to the command palette, then
\* buildFullUI.
InitDashboard ==
    /\ \E d \in LoadedData :
          /\ s = [data |-> d, txIndex |-> buildTxIndex(d)]
          /\ dataFile = IF d = EmptyData THEN NoFile ELSE d
    /\ last = [op |-> "New", err |-> ErrNone, tx |-> NoTx]
    /\ calls = 0
    /\ cp = NewCommandPalette
    /\ other = NoInstance
    /\ dash = buildFullUI([s |-> s, currentView |-> ViewMain,
                           SelectedWallet |-> 0, Months |-> <<>>,
                           CurrentMonth |-> 0, cmdMode |-> FALSE,
                           idx |-> {}], dataFile)

\* A key handled outside command mode.
Key(name, d) ==
    /\ ~Stopped
    /\ ~dash.cmdMode
    /\ dash' = d
    /\ last' = [op |-> name, err |-> ErrNone, tx |-> NoTx]
    /\ UNCHANGED <<s, dataFile, calls, cp, other>>

\* ':' opens the command input.
KeyColon ==
    Key("KeyColon", buildFullUI([Handling EXCEPT !.cmdMode = TRUE], dataFile))

\* 'r' reloads.
KeyR == Key("KeyR", buildFullUI([Handling EXCEPT !.Months = <<>>], dataFile))

\* 's' changes the view.
KeyS ==
    Key("KeyS",
        buildFullUI([Handling EXCEPT !.currentView =
                        IF @ = ViewMain THEN ViewStats ELSE ViewMain],
                    dataFile))

\* Left and right in the statistics view with a month list.
KeyLeft ==
    /\ dash.currentView = ViewStats /\ Len(dash.Months) > 0
    /\ Key("KeyLeft",
           IF dash.CurrentMonth > 0
           THEN buildFullUI([Handling EXCEPT !.CurrentMonth = @ - 1], dataFile)
           ELSE Handling)

KeyRight ==
    /\ dash.currentView = ViewStats /\ Len(dash.Months) > 0
    /\ Key("KeyRight",
           IF dash.CurrentMonth < Len(dash.Months) - 1
           THEN buildFullUI([Handling EXCEPT !.CurrentMonth = @ + 1], dataFile)
           ELSE Handling)

\* Up and down in the main view.
KeyUp ==
    /\ dash.currentView = ViewMain
    /\ Key("KeyUp",
           IF dash.SelectedWallet > 0
           THEN buildFullUI([Handling EXCEPT !.SelectedWallet = @ - 1],
                            dataFile)
           ELSE Handling)

KeyDown ==
    /\ dash.currentView = ViewMain
    /\ Key("KeyDown",
           IF dash.SelectedWallet
                < Cardinality(DOMAIN dash.s.data.Wallets) - 1
           THEN buildFullUI([Handling EXCEPT !.SelectedWallet = @ + 1],
                            dataFile)
           ELSE Handling)

\* Enter in the main view copies the address of the wallet under the
\* cursor when the cursor is inside the list; the view is built again when
\* the copy command succeeded.
KeyEnter(copied) ==
    LET n == Cardinality(DOMAIN dash.s.data.Wallets)
    IN /\ dash.currentView = ViewMain
       /\ Key("KeyEnter",
              IF dash.SelectedWallet < n
              THEN LET d == [Handling EXCEPT
                                !.idx = {IndexAt("wallets",
                                                 dash.SelectedWallet, n)}]
                   IN IF copied THEN buildFullUI(d, dataFile) ELSE d
              ELSE Handling)

\* Enter in the command input: a line that is not empty goes to the
\* palette, which works on the store it was created with; unless the
\* command quits, the month list is cleared and the dashboard built again.
\* The record of the call keeps the store the dashboard had last read and
\* the cursor before the command.
cmdEnter(input, now, randomColor) ==
    LET r == ExecuteOp(s, cp, input, now, randomColor)
        file == IF r.res.saved THEN save(r.res.st) ELSE dataFile
        d == [Handling EXCEPT !.cmdMode = FALSE]
    IN /\ calls < MaxCalls
       /\ ~Stopped
       /\ dash.cmdMode
       /\ input # <<>>
       /\ calls' = calls + 1
       /\ s' = r.res.st
       /\ dataFile' = file
       /\ cp' = r.cp
       /\ dash' = IF r.res.Quit THEN d
                  ELSE buildFullUI([d EXCEPT !.Months = <<>>], file)
       /\ last' = [op |-> "Execute", err |-> r.res.Message, tx |-> NoTx,
                   input |-> input, saved |-> r.res.saved,
                   read |-> dash.s, pal |-> cp,
                   sel |-> dash.SelectedWallet,
                   res |-> [Success |-> r.res.Success, Quit |-> r.res.Quit,
                            IsHelp |-> r.res.IsHelp]]
       /\ UNCHANGED other

\* Enter on an empty command input, or Escape: the input is closed.
cmdClose ==
    /\ ~Stopped
    /\ dash.cmdMode
    /\ dash' = buildFullUI([Handling EXCEPT !.cmdMode = FALSE], dataFile)
    /\ last' = [op |-> "cmdClose", err |-> ErrNone, tx |-> NoTx]
    /\ UNCHANGED <<s, dataFile, calls, cp, other>>

\* A command of the command line run by another process while the
\* dashboard is open: the process opens the store, calls the method and
\* the method saves.
cli(op, r) ==
    /\ calls < MaxCalls
    /\ calls' = calls + 1
    /\ dataFile' = IF r.err = ErrNone THEN save(r.st) ELSE dataFile
    /\ last' = [op |-> op, err |-> r.err, tx |-> NoTx]
    /\ UNCHANGED <<s, cp, dash, other>>

\* The transactions `tx add` of the other process records: a deposit into
\* w1 in January and one in February 2025.
DashTxs ==
    {WithFee(Tx("t1", TxTypeDeposit, "", "w1", "A", 1, "", "", 0, "", 0),
             0, "", "", Date(2025, 1, 5)),
     WithFee(Tx("t2", TxTypeDeposit, "", "w1", "A", 1, "", "", 0, "", 0),
             0, "", "", Date(2025, 2, 1))}

\* The lines typed into the command input of the dashboard.
DashLines ==
    {<<"q">>,
     <<"foo">>,
     <<"add", Blank, "wallet", Blank, "w2", Blank, "addr", Blank, "eth-hot">>,
     <<"del", Blank, "wallet", Blank, "w2">>,
     <<"del", Blank, "tx", Blank, "t2">>}

NextDashboard ==
    \/ KeyColon
    \/ KeyR
    \/ KeyS
    \/ KeyLeft
    \/ KeyRight
    \/ KeyUp
    \/ KeyDown
    \/ \E copied \in BOOLEAN : KeyEnter(copied)
    \/ \E input \in DashLines : cmdEnter(input, 1, "red")
    \/ cmdClose
    \/ \E tx \in DashTxs :
          cli("cliTxAdd", AddTransactionOp(New(dataFile), tx))
    \/ \E n \in WalletNames :
          cli("cliWalletDel", DeleteWalletOp(New(dataFile), n))

SpecDashboard == InitDashboard /\ [][NextDashboard]_vars

\* C35: after the dashboard has read the data file again, a palette
\* command that saves leaves in the file the result of applying the
\* command to the store just read, so that what another process wrote
\* before the reload is still in the file.
C35_PaletteOnReloadedLedger ==
    (last.op = "Execute" /\ last.saved)
        => dataFile = save(ExecuteOp(last.read, last.pal, last.input,
                                     1, "red").res.st)

\* C39: every use of SelectedWallet as an index into the wallet list and
\* of CurrentMonth as an index into Months is inside the list.
C39_CursorsInRange ==
    \A e \in dash.idx : 0 <= e.i /\ e.i < e.n

\* C39 witness: the cursor of the main view was on the second wallet when
\* a palette command deleted a wallet; the view drawn afterwards indexes
\* the list of the one wallet left.
C39_Witness ==
    /\ last.op = "Execute" /\ last.res.Success
    /\ last.sel = 1
    /\ dash.currentView = ViewMain
    /\ IndexAt("wallets", 0, 1) \in dash.idx

\* ------------------------------------------------ dashboard, flow canvas
\* t.Before(u) for two dates.
Before(t, u) == DayNumber(t) < DayNumber(u)

\* time.Format("Jan 02"): the month's English abbreviation, a blank and
\* the day in two digits.
MonthAbbreviation ==
    <<"Jan", "Feb", "Mar", "Apr", "May", "Jun", "Jul", "Aug", "Sep", "Oct",
      "Nov", "Dec">>
Format(date) ==
    MonthAbbreviation[date.month] \o " "
        \o (IF date.day < 10 THEN "0" ELSE "") \o ToString(date.day)

\* sort.Slice(dates, Before): the dates ascending.
RECURSIVE SortDates(_)
SortDates(dates) ==
    IF dates = <<>> THEN <<>>
    ELSE LET i == CHOOSE x \in 1..Len(dates) :
                     \A j \in 1..Len(dates) : ~Before(dates[j], dates[x])
         IN <<dates[i]>>
              \o SortDates(SubSeq(dates, 1, i - 1)
                             \o SubSeq(dates, i + 1, Len(dates)))

\* formatDates taking the ends of the list as the transactions were
\* aggregated.
formatDates_Unsorted(dates) ==
    IF Len(dates) = 1 THEN Format(dates[1])
    ELSE Format(dates[1]) \o " - " \o Format(dates[Len(dates)])

\* formatDates: one date as it is, several as the first and the last of
\* the sorted list.
formatDates(dates) ==
    IF Len(dates) = 1 THEN Format(dates[1])
    ELSE LET sorted == SortDates(dates)
         IN Format(sorted[1]) \o " - " \o Format(sorted[Len(sorted)])

\* sort.Slice(allEdges, Dates[0].Before(Dates[0])): the edges under the
\* keys given, ascending by the first date of their date lists.  The dates
\* of the model are distinct, so there is one such order.
RECURSIVE SortByFirstDate(_, _)
SortByFirstDate(edges, keys) ==
    IF keys = {} THEN <<>>
    ELSE LET k == CHOOSE x \in keys :
                     \A j \in keys :
                        ~Before(edges[j].Dates[1], edges[x].Dates[1])
         IN <<edges[k]>> \o SortByFirstDate(edges, keys \ {k})

\* sourceOrder: the sources of the edges in the order they first appear.
RECURSIVE SourceOrder(_)
SourceOrder(allEdges) ==
    IF allEdges = <<>> THEN <<>>
    ELSE LET front == SourceOrder(SubSeq(allEdges, 1, Len(allEdges) - 1))
             from == allEdges[Len(allEdges)].From
         IN IF \E i \in 1..Len(front) : front[i] = from THEN front
            ELSE Append(front, from)

\* The two branch marks of the tree, written in ASCII: the one that goes
\* on and the one that closes a node.
Branch == "|--"
LastBranch == "+--"

\* The lines under a source node: its edges in the order of allEdges, the
\* last with the closing branch.
EdgeLines(allEdges, source) ==
    LET es == SelectSeq(allEdges, LAMBDA e : e.From = source)
    IN [i \in 1..Len(es) |->
          [branch |-> IF i = Len(es) THEN LastBranch ELSE Branch,
           edge |-> es[i],
           dateLabel |-> formatDates(es[i].Dates)]]

\* The FlowEdge createFlowCanvas keeps for a swap.
SwapEdge(tx) ==
    [From |-> tx.SwapWallet, SellCoin |-> tx.SellCoin,
     SellAmount |-> tx.SellAmount, BuyCoin |-> tx.BuyCoin,
     BuyAmount |-> tx.BuyAmount, Count |-> 1, Dates |-> <<tx.Date>>,
     TxType |-> tx.Type]

\* The swaps grouped by wallet and sell coin only.
swapKey_NoBuyCoin(swap) == <<swap.From, swap.SellCoin, "">>

\* swapKey{swap.From, swap.SellCoin, swap.BuyCoin}
swapKey(swap) == <<swap.From, swap.SellCoin, swap.BuyCoin>>

\* The sum of the numbers of a sequence.
RECURSIVE SeqSum(_)
SeqSum(ns) == IF ns = <<>> THEN 0 ELSE Head(ns) + SeqSum(Tail(ns))

\* What is written for one group of swaps: a line for each swap with its
\* date label, and the total line when the group has two or more.
SwapGroup(group) ==
    [swaps |-> [i \in 1..Len(group) |->
                  [swap |-> group[i],
                   dateLabel |-> formatDates(group[i].Dates)]],
     total |-> IF Len(group) >= 2
               THEN <<[totalSell |-> SeqSum([i \in 1..Len(group) |->
                                               group[i].SellAmount]),
                       totalBuy |-> SeqSum([i \in 1..Len(group) |->
                                              group[i].BuyAmount])]>>
               ELSE <<>>]

\* swapGroups and what is written for each.
SwapGroups(swaps) ==
    [key \in {swapKey(swaps[i]) : i \in 1..Len(swaps)} |->
        SwapGroup(SelectSeq(swaps, LAMBDA sw : swapKey(sw) = key))]

\* createFlowCanvas(txs, wallets): the edge map, the sorted edges, the
\* source nodes with their lines, the swap groups.
FlowCanvas(txs) ==
    LET edges == FlowEdges(txs, Len(txs))
        allEdges == SortByFirstDate(edges, DOMAIN edges)
        sources == SourceOrder(allEdges)
        swaps == [i \in 1..Len(FlowSwaps(txs)) |->
                     SwapEdge(FlowSwaps(txs)[i])]
    IN [edges |-> edges,
        allEdges |-> allEdges,
        nodes |-> [i \in 1..Len(sources) |->
                     [source |-> sources[i],
                      lines |-> EdgeLines(allEdges, sources[i])]],
        swapGroups |-> SwapGroups(swaps)]

\* model.Tx with the fields createFlowCanvas reads, the swap fields
\* included.
CanvasTx(typ, from, to, coin, amount) ==
    FlowTx(typ, from, to, coin, amount, "", "")
        @@ [SwapWallet |-> "", SellCoin |-> "", SellAmount |-> 0,
            BuyCoin |-> "", BuyAmount |-> 0]
CanvasSwap(wallet, sellCoin, sellAmount, buyCoin, buyAmount) ==
    [SwapWallet |-> wallet, SellCoin |-> sellCoin,
     SellAmount |-> sellAmount, BuyCoin |-> buyCoin,
     BuyAmount |-> buyAmount]
        @@ FlowTx(TxTypeSwap, "", "", "", 0, "", "")

\* The transactions recorded in the month of the model: deposits into two
\* wallets, a withdrawal, a transfer, swaps of two wallets and two pairs
\* of coins.
CanvasTxs ==
    {CanvasTx(TxTypeDeposit, "", "w1", "A", 1),
     CanvasTx(TxTypeDeposit, "", "w2", "A", 2),
     CanvasTx(TxTypeWithdraw, "w1", "", "A", 1),
     CanvasTx(TxTypeTransfer, "w1", "w2", "A", 1),
     CanvasSwap("w1", "A", 1, "B", 2),
     CanvasSwap("w1", "A", 3, "B", 4),
     CanvasSwap("w1", "A", 1, "C", 1),
     CanvasSwap("w2", "A", 1, "B", 1)}

\* The flow canvas before the first transaction.
NoCanvas == [txs |-> {}, monthTxs |-> <<>>, canvas |-> FlowCanvas(<<>>),
             built |-> FALSE]

InitCanvas ==
    /\ s = New(NoFile)
    /\ dataFile = NoFile
    /\ last = [op |-> "New", err |-> ErrNone, tx |-> NoTx]
    /\ calls = 0
    /\ cp = NewCommandPalette
    /\ other = NoInstance
    /\ dash = NoCanvas

\* A command records a transaction dated by the clock, which has moved on
\* by a day since the last one.
RecordCanvasTx(tx) ==
    /\ calls < MaxCalls
    /\ calls' = calls + 1
    /\ dash' = [NoCanvas EXCEPT
                  !.txs = dash.txs
                            \cup {[tx EXCEPT !.Date = Date(2025, 1, 9 + calls)]}]
    /\ last' = [op |-> "RecordCanvasTx", err |-> ErrNone, tx |-> NoTx]
    /\ UNCHANGED <<s, dataFile, cp, other>>

\* The statistics view is built: the transactions newest first, grouped by
\* month, the list of the newest month handed to createFlowCanvas.
drawFlowCanvas ==
    LET allTxs == SortNewestFirst(dash.txs)
        txsByMonth == groupTransactionsByMonth(allTxs)
        monthTxs == txsByMonth[getSortedMonthKeys(txsByMonth)[1]]
    IN /\ ~dash.built
       /\ dash.txs # {}
       /\ dash' = [txs |-> dash.txs, monthTxs |-> monthTxs,
                   canvas |-> FlowCanvas(monthTxs), built |-> TRUE]
       /\ last' = [op |-> "drawFlowCanvas", err |-> ErrNone, tx |-> NoTx]
       /\ UNCHANGED <<s, dataFile, calls, cp, other>>

NextCanvas ==
    \/ \E tx \in CanvasTxs : RecordCanvasTx(tx)
    \/ drawFlowCanvas

SpecCanvas == InitCanvas /\ [][NextCanvas]_vars

\* The earliest and the latest of a list of dates.
Earliest(dates) ==
    CHOOSE d \in {dates[i] : i \in 1..Len(dates)} :
        \A i \in 1..Len(dates) : ~Before(dates[i], d)
Latest(dates) ==
    CHOOSE d \in {dates[i] : i \in 1..Len(dates)} :
        \A i \in 1..Len(dates) : ~After(dates[i], d)

\* The dates of the transactions of the month with the ends, coin and
\* type of edge e.
ContributingDates(e) ==
    {tx.Date : tx \in {t \in dash.txs :
                          /\ t.Type # TxTypeSwap
                          /\ EdgeTuple(t) = <<e.From, e.To, e.Coin, e.TxType>>}}
SetEarliest(ds) == CHOOSE d \in ds : \A x \in ds : ~Before(x, d)
SetLatest(ds) == CHOOSE d \in ds : \A x \in ds : ~After(x, d)

\* C31: in the sorted edge list an edge whose earliest contributing date
\* is before another's comes before it; under each source node the edges
\* stand in the order of that list, the last with the closing branch.
C31_EdgesByEarliestDate ==
    dash.built =>
        LET es == dash.canvas.allEdges
        IN /\ \A i, j \in 1..Len(es) :
                 Before(SetEarliest(ContributingDates(es[i])),
                        SetEarliest(ContributingDates(es[j]))) => i < j
           /\ \A n \in 1..Len(dash.canvas.nodes) :
                 LET node == dash.canvas.nodes[n]
                 IN /\ [i \in 1..Len(node.lines) |-> node.lines[i].edge]
                         = SelectSeq(es, LAMBDA e : e.From = node.source)
                    /\ \A i \in 1..Len(node.lines) :
                          (node.lines[i].branch = LastBranch)
                             <=> (i = Len(node.lines))

\* The label of the dates ds: the date alone, or the earliest and the
\* latest.
RangeLabel(ds) ==
    IF Cardinality(ds) = 1 THEN Format(SetEarliest(ds))
    ELSE Format(SetEarliest(ds)) \o " - " \o Format(SetLatest(ds))

MonthSwaps == {tx \in dash.txs : tx.Type = TxTypeSwap}
TripleOf(tx) == <<tx.SwapWallet, tx.SellCoin, tx.BuyCoin>>

\* The sum of f over a finite set of records.
RECURSIVE SumOver(_, _)
SumOver(f(_), xs) ==
    IF xs = {} THEN 0
    ELSE LET x == CHOOSE y \in xs : TRUE
         IN f(x) + SumOver(f, xs \ {x})

\* C33: no edge is made of a swap; every swap of the month is written
\* once, in the group of its wallet, sell coin and buy coin; a group has a
\* total line exactly when it has two or more swaps, and the total shows
\* the sums of the sell and of the buy amounts of the swaps of the group.
C33_SwapGroups ==
    dash.built =>
        /\ \A k \in DOMAIN dash.canvas.edges :
              dash.canvas.edges[k].TxType # TxTypeSwap
        /\ SeqSum([i \in 1..Len(dash.canvas.allEdges) |->
                      dash.canvas.allEdges[i].Count])
             = Cardinality(dash.txs \ MonthSwaps)
        /\ \A tx \in MonthSwaps :
              Cardinality({<<key, i>> \in
                              UNION {{key} \X (1..Len(dash.canvas.swapGroups[key].swaps)) :
                                        key \in DOMAIN dash.canvas.swapGroups} :
                              dash.canvas.swapGroups[key].swaps[i].swap
                                 = SwapEdge(tx)}) = 1
        /\ \A key \in DOMAIN dash.canvas.swapGroups :
              LET group == dash.canvas.swapGroups[key]
                  members == {tx \in MonthSwaps : TripleOf(tx) = key}
              IN /\ {group.swaps[i].swap : i \in 1..Len(group.swaps)}
                      = {SwapEdge(tx) : tx \in members}
                 /\ Len(group.swaps) = Cardinality(members)
                 /\ (Len(group.total) = 1) <=> (Cardinality(members) >= 2)
                 /\ Len(group.total) = 1 =>
                       /\ group.total[1].totalSell
                            = SumOver(LAMBDA tx : tx.SellAmount, members)
                       /\ group.total[1].totalBuy
                            = SumOver(LAMBDA tx : tx.BuyAmount, members)

\* C33 witness: a month with two swaps of one group and a swap of another
\* group; the first group has the total 4 and 6, the second none.
C33_Witness ==
    /\ dash.built
    /\ <<"w1", "A", "B">> \in DOMAIN dash.canvas.swapGroups
    /\ <<"w1", "A", "C">> \in DOMAIN dash.canvas.swapGroups
    /\ dash.canvas.swapGroups[<<"w1", "A", "B">>].total
         = <<[totalSell |-> 4, totalBuy |-> 6]>>
    /\ dash.canvas.swapGroups[<<"w1", "A", "C">>].total = <<>>

====
